---------------------------- MODULE Spec2Model ----------------------------
(***************************************************************************)
(* TranscribeAPP: the audio pipeline of src/src/services/audio/            *)
(* AudioProcessor.ts (duration probe, mono/16 kHz normalisation, WAV       *)
(* encoding, segmentation with overlap), the processAudio orchestrator and  *)
(* the recorder of src/src/App.tsx, and the HTTP clients of                *)
(* src/src/services/mistral/MistralClient.ts and                           *)
(* src/src/services/deepl/deepLClient.ts with the proxy of src/server.ts.  *)
(*                                                                         *)
(* Numbers.  A JavaScript number that holds a time in seconds is kept as   *)
(* an integer count of ticks of 1/TicksPerSecond s.  TicksPerSecond is a   *)
(* power of two, so every such value is an exact double and its product    *)
(* with a sample rate is exact: Math.floor of the double is the floor of   *)
(* the rational.  PCM samples are kept as integer multiples of             *)
(* 1/SampleDen, again a power of two.                                      *)
(***************************************************************************)
EXTENDS Integers, Sequences, FiniteSets, TLC

VARIABLES
    processor,  \* the AudioProcessor instance: its audioContext field
    probe,      \* one call of AudioProcessor.getAudioDuration
    split,      \* one call of AudioProcessor.splitAudio
    norm,       \* one call of AudioProcessor.normalizeAudio
    app,        \* the App component's state: status, transcription, error, ...
    ops,        \* the calls of App's processAudio, in the order they started
    http        \* one call of a method of MistralClient or DeepLClient

vars == <<processor, probe, split, norm, app, ops, http>>

---------------------------------------------------------------------------
(* Bounds of the model *)

MaxFrames == 50            \* longest decoded buffer of the small inputs, in frames
MaxLoopFrames == 24        \* longest buffer of the loop's own inputs, in frames
MaxSegmentSamples == 6     \* largest segmentSamples of the loop's own inputs
MaxOverlapSamples == 8     \* largest overlapSamples of the loop's own inputs
MaxSegmentTicks == 42      \* longest segmentDuration of the small inputs, in ticks
MaxOverlapTicks == 13      \* longest overlap of the small inputs, in ticks
MaxSamples == 2            \* longest sample array that is enumerated in full
MaxSampleNum == 8          \* largest sample magnitude, in units of 1/SampleDen
MaxDurationTicks == 3      \* longest metadata duration of the probe's inputs, in ticks
MaxChannels == 3           \* most channels of a decoded input
MaxOps == 2                \* most calls of processAudio in one run of the App

---------------------------------------------------------------------------
(* Program constants *)

TicksPerSecond == 2^15
SampleDen == 2^2

targetSampleRate == 16000
bytesPerSample == 2
WavHeaderBytes == 44
DefaultSegmentDuration == 900
DefaultOverlap == 3
LongAudioSeconds == 900

---------------------------------------------------------------------------
(* Arithmetic helpers *)

Min(a, b) == IF a < b THEN a ELSE b
Max(a, b) == IF a > b THEN a ELSE b

\* floor(a * b / c) for a, b >= 0 and c > 0, without forming a * b.
FloorMulDiv(a, b, c) == (a \div c) * b + ((a % c) * b) \div c

\* ceil(a * b / c) for a, b >= 0 and c > 0.
CeilMulDiv(a, b, c) ==
    LET q == FloorMulDiv(a, b, c)
        exact == ((a % c) * b) % c = 0
    IN  IF exact THEN q ELSE q + 1

\* Mutant: Math.round(seconds * sampleRate), halves rounded up.
RoundSamples(ticks, sampleRate) ==
    FloorMulDiv(ticks, sampleRate, TicksPerSecond)
        + (IF 2 * (((ticks % TicksPerSecond) * sampleRate) % TicksPerSecond) >= TicksPerSecond
           THEN 1 ELSE 0)

\* Math.floor(seconds * sampleRate), seconds given in ticks.
FloorSamples(ticks, sampleRate) == FloorMulDiv(ticks, sampleRate, TicksPerSecond)

---------------------------------------------------------------------------
(* The AudioProcessor instance (lines 8-20).  audioContext is 0 for null,  *)
(* otherwise the number of the context; constructed counts the contexts    *)
(* that were ever constructed.                                             *)

NewProcessor == [audioContext |-> 0, constructed |-> 0]

\* Mutant: a context is constructed on every call.
getContextAlwaysNew(p) ==
    [audioContext |-> p.constructed + 1, constructed |-> p.constructed + 1]

getContext(p) ==
    IF p.audioContext = 0
    THEN [audioContext |-> p.constructed + 1, constructed |-> p.constructed + 1]
    ELSE p

---------------------------------------------------------------------------
(* A JavaScript number that holds a duration: NaN, Infinity, or num/den.   *)

NaNNumber == [kind |-> "NaN", num |-> 0, den |-> 1]
Infinity == [kind |-> "Infinity", num |-> 0, den |-> 1]
Finite(num, den) == [kind |-> "finite", num |-> num, den |-> den]
Seconds(ticks) == Finite(ticks, TicksPerSecond)

\* Number.isFinite(x)
IsFinite(x) == x.kind = "finite"

\* x > n for an integer n; NaN compares false.
GreaterThan(x, n) ==
    \/ x.kind = "Infinity"
    \/ x.kind = "finite" /\ x.num > n * x.den

---------------------------------------------------------------------------
(* AudioBuffer: its shape.  A Float32Array is a view [offset, length] onto   *)
(* the channel data of a buffer.                                           *)

AudioBuffer(channels, rate, len) ==
    [numberOfChannels |-> channels, sampleRate |-> rate, length |-> len]

\* buffer.duration
BufferDuration(buffer) == Finite(buffer.length, buffer.sampleRate)

\* mixToMono: a mono buffer is returned as it is, anything else is mixed
\* into a new one-channel buffer of the same length and rate.
mixToMono(buffer) ==
    IF buffer.numberOfChannels = 1
    THEN buffer
    ELSE AudioBuffer(1, buffer.sampleRate, buffer.length)

\* Mutant: the buffer is mixed down and its rate is left as it is.
resampleToMonoOnly(buffer) == mixToMono(buffer)

\* resampleToMono16k: a 16 kHz mono buffer is returned as it is; anything
\* else is rendered by an OfflineAudioContext(1, targetLength, 16000).
resampleToMono16k(buffer) ==
    LET monoBuffer == mixToMono(buffer)
        targetLength == CeilMulDiv(monoBuffer.length, targetSampleRate,
                                   monoBuffer.sampleRate)
    IN  IF monoBuffer.sampleRate = targetSampleRate
        THEN monoBuffer
        ELSE AudioBuffer(1, targetSampleRate, targetLength)

\* buffer.getChannelData(0)
getChannelData(buffer) == [offset |-> 0, length |-> buffer.length]

\* TypedArray.prototype.subarray(begin, end): a negative index counts from
\* the end, both indices are clamped to the array, and an end before the
\* begin gives an empty view.
RelativeIndex(k, len) == IF k < 0 THEN Max(len + k, 0) ELSE Min(k, len)

subarray(samples, begin, end) ==
    LET beginIndex == RelativeIndex(begin, samples.length)
        endIndex == RelativeIndex(end, samples.length)
    IN  [offset |-> samples.offset + beginIndex,
         length |-> Max(endIndex - beginIndex, 0)]

---------------------------------------------------------------------------
(* Numbers, bytes and DataView.  A sample is NaN or a multiple of          *)
(* 1/SampleDen; an infinite sample clamps as any sample beyond 1 does.     *)

NaN == [nan |-> TRUE, num |-> 0]
Sample(num) == [nan |-> FALSE, num |-> num]

\* Math.max(-1, Math.min(1, x)): NaN stays NaN.
ClampSample(x) ==
    IF x.nan THEN NaN ELSE Sample(Max(-SampleDen, Min(SampleDen, x.num)))

\* Mutant: both signs scaled by 0x8000.
ScaleSampleSymmetric(x) ==
    IF x.nan THEN NaN ELSE Sample(x.num * 32768)

\* sample < 0 ? sample * 0x8000 : sample * 0x7fff (NaN < 0 is false).
ScaleSample(x) ==
    IF x.nan THEN NaN
    ELSE IF x.num < 0 THEN Sample(x.num * 32768) ELSE Sample(x.num * 32767)

\* The integer part of n/d, toward zero.
TruncDiv(n, d) == IF n >= 0 THEN n \div d ELSE -((-n) \div d)

\* ToInt16 of DataView.setInt16: NaN becomes 0, anything else is truncated
\* toward zero and taken modulo 2^16.
ToInt16Bits(x) == IF x.nan THEN 0 ELSE TruncDiv(x.num, SampleDen) % 65536

\* Mutant: most significant byte first.
BigEndian(v, n) == [k \in 1..n |-> (v \div (256 ^ (n - k))) % 256]

\* The n low bytes of v >= 0, least significant first (littleEndian = true).
LittleEndian(v, n) == [k \in 1..n |-> (v \div (256 ^ (k - 1))) % 256]

ZeroBuffer(n) == [k \in 1..n |-> 0]

\* Bytes written at a byte offset of the buffer.
WriteBytes(buffer, offset, bytes) ==
    [k \in 1..Len(buffer) |->
        IF k - 1 >= offset /\ k - 1 < offset + Len(bytes)
        THEN bytes[k - offset]
        ELSE buffer[k]]

setUint32(buffer, offset, v) == WriteBytes(buffer, offset, LittleEndian(v, 4))
setUint16(buffer, offset, v) == WriteBytes(buffer, offset, LittleEndian(v % 65536, 2))
setInt16(buffer, offset, x) == WriteBytes(buffer, offset, LittleEndian(ToInt16Bits(x), 2))

\* writeString: one byte per character code.
CharCodes(str) ==
    CASE str = "RIFF" -> <<82, 73, 70, 70>>
      [] str = "WAVE" -> <<87, 65, 86, 69>>
      [] str = "fmt " -> <<102, 109, 116, 32>>
      [] str = "data" -> <<100, 97, 116, 97>>

writeString(buffer, offset, str) == WriteBytes(buffer, offset, CharCodes(str))

---------------------------------------------------------------------------
(* encodeWav(samples, sampleRate) and createWavBlob                        *)

\* Mutant: the data size counted in samples, not in bytes.
dataSizeInSamples(sampleCount) == sampleCount

dataSize(sampleCount) == sampleCount * bytesPerSample

\* new ArrayBuffer(44 + dataSize)
WavBufferLength(sampleCount) == WavHeaderBytes + dataSize(sampleCount)

\* Lines 134-146: the header, field by field.
WriteHeader(buffer, sampleCount, sampleRate) ==
    LET b1 == writeString(buffer, 0, "RIFF")
        b2 == setUint32(b1, 4, 36 + dataSize(sampleCount))
        b3 == writeString(b2, 8, "WAVE")
        b4 == writeString(b3, 12, "fmt ")
        b5 == setUint32(b4, 16, 16)
        b6 == setUint16(b5, 20, 1)
        b7 == setUint16(b6, 22, 1)
        b8 == setUint32(b7, 24, sampleRate)
        b9 == setUint32(b8, 28, sampleRate * bytesPerSample)
        b10 == setUint16(b9, 32, bytesPerSample)
        b11 == setUint16(b10, 34, 16)
        b12 == writeString(b11, 36, "data")
    IN  setUint32(b12, 40, dataSize(sampleCount))

\* Lines 148-157: the samples, from offset 44 on, bytesPerSample apart.
RECURSIVE WriteSamples(_, _, _, _)
WriteSamples(buffer, samples, i, offset) ==
    IF i > Len(samples)
    THEN buffer
    ELSE WriteSamples(setInt16(buffer, offset, ScaleSample(ClampSample(samples[i]))),
                      samples, i + 1, offset + bytesPerSample)

encodeWav(samples, sampleRate) ==
    LET buffer == ZeroBuffer(WavBufferLength(Len(samples)))
    IN  WriteSamples(WriteHeader(buffer, Len(samples), sampleRate),
                     samples, 1, WavHeaderBytes)

\* new Blob([wavBuffer], {type: "audio/wav"})
WavBlob(wavBuffer) == [type |-> "audio/wav", size |-> Len(wavBuffer)]

\* createWavBlob for a view onto samples whose values are not kept (the
\* chunks of splitAudio): the blob's type and the size of the buffer
\* encodeWav allocates for it, with the view it encodes.
createWavBlob(samples, sampleRate) ==
    [type |-> "audio/wav",
     size |-> WavBufferLength(samples.length),
     sampleRate |-> sampleRate,
     samples |-> samples]

---------------------------------------------------------------------------
(* splitAudio(file, segmentDuration, overlap)                              *)

\* A file as splitAudio sees it: whether decodeAudioData accepts it and the
\* buffer it decodes to.
AudioFile(ok, buffer) == [decodable |-> ok, decoded |-> buffer]

\* The state of the call before its first await.
SplitCall(file, segmentDuration, overlap) ==
    [pc |-> "decode",
     file |-> file,
     segmentDuration |-> segmentDuration,
     overlap |-> overlap,
     sampleRate |-> 0,
     samples |-> [offset |-> 0, length |-> 0],
     segmentSamples |-> 0,
     overlapSamples |-> 0,
     index |-> 0,
     slices |-> <<>>,
     chunks |-> <<>>]

\* Lines 180-189: decode, resample, and compute the loop's constants.  A
\* file decodeAudioData refuses rejects the call.
SplitDecoded(s) ==
    IF ~s.file.decodable
    THEN [s EXCEPT !.pc = "rejected"]
    ELSE LET normalized == resampleToMono16k(s.file.decoded)
         IN  [s EXCEPT !.pc = "loop",
                       !.sampleRate = normalized.sampleRate,
                       !.samples = getChannelData(normalized),
                       !.segmentSamples =
                           FloorSamples(s.segmentDuration, normalized.sampleRate),
                       !.overlapSamples =
                           FloorSamples(s.overlap, normalized.sampleRate),
                       !.index = 0,
                       !.slices = <<>>,
                       !.chunks = <<>>]

\* Mutant: the loop stops when no whole overlap is left after the segments.
LoopConditionLeavingOverlap(s) ==
    s.index * s.segmentSamples + s.overlapSamples < s.samples.length

\* Line 190: the loop test.
LoopCondition(s) == s.index * s.segmentSamples < s.samples.length

\* Mutant: the overlap is never taken off the start.
ChunkStartWithoutOverlap(s) == s.index * s.segmentSamples

\* Mutant: the overlap is taken off from the third chunk on only.
ChunkStartOverlapLate(s) ==
    IF s.index > 1
    THEN s.index * s.segmentSamples - s.overlapSamples
    ELSE s.index * s.segmentSamples

\* Lines 191-194: where the chunk starts.
ChunkStart(s) ==
    IF s.index > 0
    THEN s.index * s.segmentSamples - s.overlapSamples
    ELSE s.index * s.segmentSamples

\* Mutant: every chunk is one segment long, the overlap included.
ChunkLengthOfSegment(s) ==
    IF ChunkStart(s) + s.segmentSamples > s.samples.length
    THEN s.samples.length - ChunkStart(s)
    ELSE s.segmentSamples

\* Mutant: the last chunk is not cut at the end of the samples.
ChunkLengthUnclamped(s) ==
    s.segmentSamples + (IF s.index > 0 THEN s.overlapSamples ELSE 0)

\* Mutant: the last chunk is cut to what is left after the segment's own
\* start, the overlap before it not counted.
ChunkLengthCutFromSegmentStart(s) ==
    LET chunkStart == ChunkStart(s)
        chunkLength == s.segmentSamples + (IF s.index > 0 THEN s.overlapSamples ELSE 0)
    IN  IF chunkStart + chunkLength > s.samples.length
        THEN s.samples.length - s.index * s.segmentSamples
        ELSE chunkLength

\* Lines 196-199: how long the chunk is, cut at the end of the samples.
ChunkLength(s) ==
    LET chunkStart == ChunkStart(s)
        chunkLength == s.segmentSamples + (IF s.index > 0 THEN s.overlapSamples ELSE 0)
    IN  IF chunkStart + chunkLength > s.samples.length
        THEN s.samples.length - chunkStart
        ELSE chunkLength

\* Lines 211-213: the chunk reaches the end of the samples.
ReachedEnd(s) == ChunkStart(s) + ChunkLength(s) >= s.samples.length

\* Lines 205-209: encode the chunk's samples and push the blob.
PushChunk(s) ==
    LET chunkStart == ChunkStart(s)
        chunkLength == ChunkLength(s)
        chunkSamples == subarray(s.samples, chunkStart, chunkStart + chunkLength)
    IN  [s EXCEPT !.slices = Append(@, [chunkStart |-> chunkStart,
                                        chunkLength |-> chunkLength]),
                  !.chunks = Append(@, createWavBlob(chunkSamples, s.sampleRate))]

\* Mutant: a chunk without samples is skipped with continue, not break.
SplitIterationContinuing(s) ==
    IF ~LoopCondition(s)
    THEN [s EXCEPT !.pc = "resolved"]
    ELSE IF ChunkLength(s) <= 0
         THEN s
         ELSE IF ReachedEnd(s)
              THEN [PushChunk(s) EXCEPT !.pc = "resolved"]
              ELSE [PushChunk(s) EXCEPT !.index = @ + 1]

\* Lines 190-216: the loop test and one pass through the loop body.
SplitIteration(s) ==
    IF ~LoopCondition(s)
    THEN [s EXCEPT !.pc = "resolved"]
    ELSE IF ChunkLength(s) <= 0
         THEN [s EXCEPT !.pc = "resolved"]
         ELSE IF ReachedEnd(s)
              THEN [PushChunk(s) EXCEPT !.pc = "resolved"]
              ELSE [PushChunk(s) EXCEPT !.index = @ + 1]

\* The call runs to the end of its decode.
SplitDecode ==
    /\ split.pc = "decode"
    /\ split' = SplitDecoded(split)
    /\ processor' = getContext(processor)
    /\ UNCHANGED <<probe, norm, app, ops, http>>

\* One test of the loop condition, with the pass through the body it admits.
SplitLoop ==
    /\ split.pc = "loop"
    /\ split' = SplitIteration(split)
    /\ UNCHANGED <<processor, probe, norm, app, ops, http>>

---------------------------------------------------------------------------
(* Inputs of the splitAudio specification *)

\* The decoded inputs: buffers already in the target format, which are
\* passed through, and stereo 8 kHz ones, which are mixed down and resampled
\* to twice their length.
SmallBuffers ==
    {AudioBuffer(1, targetSampleRate, n) : n \in 1..MaxFrames}
        \cup {AudioBuffer(2, 8000, n) : n \in 1..(MaxFrames \div 4)}

UndecodableFile == AudioFile(FALSE, AudioBuffer(1, targetSampleRate, 1))

SmallSplitCalls ==
    {SplitCall(AudioFile(TRUE, b), d, o) :
        b \in SmallBuffers, d \in 0..MaxSegmentTicks, o \in 0..MaxOverlapTicks}

\* Recordings around the 900 s and 1797 s boundaries, split with the
\* default parameters.
LongFrames == {14400000, 14400001, 28752000, 28752001, 30000000}

DefaultSplitCalls ==
    {SplitCall(AudioFile(TRUE, AudioBuffer(1, targetSampleRate, n)),
               DefaultSegmentDuration * TicksPerSecond,
               DefaultOverlap * TicksPerSecond) : n \in LongFrames}

---------------------------------------------------------------------------
(* normalizeAudio(file), and encodeWav called on its own                   *)

NoProbe == [promise |-> "none"]
NoHttp == [pc |-> "none"]
NoOp == [pc |-> "none"]
NoOps == [o \in 1..MaxOps |-> NoOp]

\* App.tsx lines 116, 134-138: the component's state after the first render.
InitialApp(apiKey) ==
    [status |-> "idle", transcription |-> <<>>, error |-> "",
     apiKey |-> apiKey, showSettings |-> FALSE,
     useNativeRecorder |-> FALSE, recorder |-> "none"]
NoSplit == [pc |-> "none"]
NoNormalize == [pc |-> "none"]

SampleValues == {NaN} \cup {Sample(n) : n \in (-MaxSampleNum)..MaxSampleNum}

\* The arrays of the encoder's tests: [2, -2, 0.25] and [0, 0.5, -0.5, 1].
ExampleSamples ==
    {<<Sample(2 * SampleDen), Sample(-2 * SampleDen), Sample(SampleDen \div 4)>>,
     <<Sample(0), Sample(SampleDen \div 2), Sample(-(SampleDen \div 2)), Sample(SampleDen)>>}

SampleArrays ==
    UNION {[1..n -> SampleValues] : n \in 0..MaxSamples} \cup ExampleSamples

SampleArraysOfLength(n) == {a \in SampleArrays : Len(a) = n}

\* The state of a normalizeAudio call before its first await.
NormalizeCall(file) ==
    [pc |-> "decode", file |-> file, samples |-> <<>>, sampleRate |-> 0,
     wavBuffer |-> <<>>, blob |-> WavBlob(<<>>)]

\* encodeWav about to run on the given samples and rate.
EncodeCall(samples, sampleRate) ==
    [pc |-> "encode", file |-> UndecodableFile, samples |-> samples,
     sampleRate |-> sampleRate, wavBuffer |-> <<>>, blob |-> WavBlob(<<>>)]

\* Lines 168-170: decode and resample; the values of the channel data are
\* the decoder's and the renderer's.
NormalizeDecode ==
    /\ norm.pc = "decode"
    /\ IF ~norm.file.decodable
       THEN norm' = [norm EXCEPT !.pc = "rejected"]
       ELSE LET normalized == resampleToMono16k(norm.file.decoded)
            IN  \E samples \in SampleArraysOfLength(normalized.length) :
                    norm' = [norm EXCEPT !.pc = "encode",
                                         !.samples = samples,
                                         !.sampleRate = normalized.sampleRate]
    /\ processor' = getContext(processor)
    /\ UNCHANGED <<probe, split, app, ops, http>>

\* Lines 162-165, 172: createWavBlob(samples, sampleRate).
Encode ==
    /\ norm.pc = "encode"
    /\ LET wavBuffer == encodeWav(norm.samples, norm.sampleRate)
       IN  norm' = [norm EXCEPT !.pc = "resolved",
                                !.wavBuffer = wavBuffer,
                                !.blob = WavBlob(wavBuffer)]
    /\ UNCHANGED <<processor, probe, split, app, ops, http>>

---------------------------------------------------------------------------
(* getAudioDuration(file) / getAudioMetadata(file), lines 22-66            *)

\* A recording as the audio element and decodeAudioData see it: the event
\* the element answers the load with, the duration the element reports,
\* whether the file decodes, and the buffer it decodes to.
RecordingFile(media, duration, ok, buffer) ==
    [media |-> media, duration |-> duration, decodable |-> ok, decoded |-> buffer]

\* The call once the promise's executor has run: object URL created, audio
\* element loading, no event yet.
ProbeCall(file) ==
    [file |-> file,
     event |-> "none",
     delivered |-> {},
     revoked |-> 0,
     fallback |-> "none",
     promise |-> "pending",
     duration |-> NaNNumber,
     message |-> ""]

\* resolve and reject settle a pending promise and leave a settled one alone.
Resolve(p, duration) ==
    IF p.promise = "pending"
    THEN [p EXCEPT !.promise = "resolved", !.duration = duration]
    ELSE p

Reject(p, message) ==
    IF p.promise = "pending"
    THEN [p EXCEPT !.promise = "rejected", !.message = message]
    ELSE p

\* Lines 29-31: URL.revokeObjectURL(url).
cleanup(p) == [p EXCEPT !.revoked = @ + 1]

\* Line 37: the duration is usable.
ValidDuration(duration) == IsFinite(duration) /\ GreaterThan(duration, 0)

\* Mutant: the duration is resolved without being looked at.
onloadedmetadataUnchecked(p) ==
    Resolve(cleanup([p EXCEPT !.event = "loadedmetadata"]), p.file.duration)

\* Lines 33-54: audio.onloadedmetadata, up to the start of the fallback.
onloadedmetadata(p) ==
    LET duration == p.file.duration
        q == cleanup([p EXCEPT !.event = "loadedmetadata"])
    IN  IF ValidDuration(duration)
        THEN Resolve(q, duration)
        ELSE [q EXCEPT !.fallback = "pending"]

\* Mutant: an element error starts the decode fallback.
onerrorFallsBack(p) ==
    [cleanup([p EXCEPT !.event = "error"]) EXCEPT !.fallback = "pending"]

\* Lines 56-59: audio.onerror.
onerror(p) ==
    Reject(cleanup([p EXCEPT !.event = "error"]), "Unable to read audio metadata.")

\* Lines 45-53: the fallback's promise chain has run: the file decoded and
\* the buffer's duration resolved, or the catch rejected.
FallbackSettled(p) ==
    IF p.file.decodable
    THEN Resolve([p EXCEPT !.fallback = "decoded"], BufferDuration(p.file.decoded))
    ELSE Reject([p EXCEPT !.fallback = "failed"], "Unable to read audio duration.")

\* The element answers a load with one event: loadedmetadata, or error.
ProbeLoadedMetadata ==
    /\ probe.promise # "none"
    /\ probe.event = "none"
    /\ probe.file.media = "loadedmetadata"
    /\ probe' = onloadedmetadata(probe)
    /\ UNCHANGED <<processor, split, norm, app, ops, http>>

ProbeError ==
    /\ probe.promise # "none"
    /\ probe.event = "none"
    /\ probe.file.media = "error"
    /\ probe' = onerror(probe)
    /\ UNCHANGED <<processor, split, norm, app, ops, http>>

ProbeFallback ==
    /\ probe.promise # "none"
    /\ probe.fallback = "pending"
    /\ probe' = FallbackSettled(probe)
    /\ processor' = getContext(processor)
    /\ UNCHANGED <<split, norm, app, ops, http>>

\* The durations an audio element reports: NaN (unknown), Infinity (a
\* stream without a duration header), 0, and positive times.
MetadataDurations ==
    {NaNNumber, Infinity} \cup {Seconds(t) : t \in 0..MaxDurationTicks}

ProbeFiles ==
    {RecordingFile(m, d, TRUE, b) :
        m \in {"loadedmetadata", "error"}, d \in MetadataDurations, b \in SmallBuffers}
    \cup {RecordingFile(m, d, FALSE, UndecodableFile.decoded) :
            m \in {"loadedmetadata", "error"}, d \in MetadataDurations}

InitProbe ==
    /\ probe \in {ProbeCall(f) : f \in ProbeFiles}
    /\ processor = NewProcessor
    /\ split = NoSplit
    /\ norm = NoNormalize
    /\ app = InitialApp("")
    /\ ops = NoOps
    /\ http = NoHttp

NextProbe == ProbeLoadedMetadata \/ ProbeError \/ ProbeFallback

SpecProbe == InitProbe /\ [][NextProbe]_vars

\* The element is not held to one event: the handlers stay attached after
\* the first event, so a loadedmetadata and an error event may both be
\* delivered, each once, in either order.
ElementFiresLoadedMetadata ==
    /\ probe.promise # "none"
    /\ "loadedmetadata" \notin probe.delivered
    /\ probe' = [onloadedmetadata(probe) EXCEPT !.delivered = @ \cup {"loadedmetadata"}]
    /\ UNCHANGED <<processor, split, norm, app, ops, http>>

ElementFiresError ==
    /\ probe.promise # "none"
    /\ "error" \notin probe.delivered
    /\ probe' = [onerror(probe) EXCEPT !.delivered = @ \cup {"error"}]
    /\ UNCHANGED <<processor, split, norm, app, ops, http>>

NextProbeEvents == ElementFiresLoadedMetadata \/ ElementFiresError \/ ProbeFallback

SpecProbeEvents == InitProbe /\ [][NextProbeEvents]_vars

---------------------------------------------------------------------------
(* Specifications of the AudioProcessor's encoder and segmenter *)

InitSplit ==
    /\ split \in SmallSplitCalls \cup DefaultSplitCalls
                 \cup {SplitCall(UndecodableFile, DefaultSegmentDuration * TicksPerSecond,
                                 DefaultOverlap * TicksPerSecond)}
    /\ norm = NoNormalize
    /\ probe = NoProbe
    /\ processor = NewProcessor
    /\ app = InitialApp("")
    /\ ops = NoOps
    /\ http = NoHttp

NextSplit == SplitDecode \/ SplitLoop

SpecSplit == InitSplit /\ [][NextSplit]_vars

\* The loop of splitAudio on its own: the call at line 189, with a buffer of
\* any length, the empty one included, and any segment and overlap lengths
\* in samples.
LoopCall(totalFrames, segmentSamples, overlapSamples) ==
    [SplitCall(AudioFile(TRUE, AudioBuffer(1, targetSampleRate, totalFrames)), 0, 0)
        EXCEPT !.pc = "loop",
               !.sampleRate = targetSampleRate,
               !.samples = [offset |-> 0, length |-> totalFrames],
               !.segmentSamples = segmentSamples,
               !.overlapSamples = overlapSamples]

InitSegmentLoop ==
    /\ split \in {LoopCall(n, S, O) : n \in 0..MaxLoopFrames,
                                      S \in 0..MaxSegmentSamples,
                                      O \in 0..MaxOverlapSamples}
    /\ norm = NoNormalize
    /\ probe = NoProbe
    /\ processor = NewProcessor
    /\ app = InitialApp("")
    /\ ops = NoOps
    /\ http = NoHttp

\* The loop is synchronous code: once entered it runs on until it leaves.
SpecSegmentLoop == InitSegmentLoop /\ [][SplitLoop]_vars /\ WF_vars(SplitLoop)

\* The sample rates encodeWav is given when called on its own.
EncoderSampleRates == {10, 8000, targetSampleRate, 48000}

\* The decoded inputs of normalizeAudio: as many frames as a sample array
\* of the model has.
NormalizeBuffers ==
    {AudioBuffer(1, targetSampleRate, Len(a)) : a \in SampleArrays \ {<<>>}}
        \cup {AudioBuffer(2, 8000, n) : n \in 1..(MaxSamples \div 2)}

InitEncode ==
    /\ split = NoSplit
    /\ probe = NoProbe
    /\ processor = NewProcessor
    /\ app = InitialApp("")
    /\ ops = NoOps
    /\ http = NoHttp
    /\ norm \in {EncodeCall(a, r) : a \in SampleArrays, r \in EncoderSampleRates}
                \cup {NormalizeCall(AudioFile(TRUE, b)) : b \in NormalizeBuffers}
                \cup {NormalizeCall(UndecodableFile)}

NextEncode == NormalizeDecode \/ Encode

SpecEncode == InitEncode /\ [][NextEncode]_vars

InitAudio == InitSplit \/ InitEncode

NextAudio == NextSplit \/ NextEncode

SpecAudio == InitAudio /\ [][NextAudio]_vars

\* Decoded inputs of every shape: 1..MaxChannels channels, at the rates an
\* AudioContext runs at and at the target rate itself.
DecodedSampleRates == {8000, targetSampleRate, 22050, 44100, 48000}

ShapedBuffers(lengths) ==
    {AudioBuffer(c, r, n) :
        c \in 1..MaxChannels, r \in DecodedSampleRates, n \in lengths}

InitResample ==
    /\ probe = NoProbe
    /\ processor = NewProcessor
    /\ app = InitialApp("")
    /\ ops = NoOps
    /\ http = NoHttp
    /\ \/ /\ split = NoSplit
          /\ norm \in {NormalizeCall(AudioFile(TRUE, b)) : b \in ShapedBuffers(1..MaxSamples)}
       \/ /\ norm = NoNormalize
          /\ split \in {SplitCall(AudioFile(TRUE, b), d, o) :
                           b \in ShapedBuffers({1, MaxFrames \div 2, MaxFrames}),
                           d \in {MaxSegmentTicks \div 4, MaxSegmentTicks},
                           o \in {0, MaxOverlapTicks \div 4}}

SpecResample == InitResample /\ [][NextAudio]_vars

---------------------------------------------------------------------------
(* App.tsx: processAudio and the handlers that start it                    *)

\* constants/messages: ERROR_MESSAGES.
ERROR_MESSAGES ==
    [invalidAudioFile |-> "Please drop a valid audio file.",
     missingApiKey |-> "Please set your Mistral API Key first.",
     processingFailed |-> "An error occurred during processing",
     invalidApiKey |-> "Invalid API Key. Please check your Mistral API Key in settings."]

\* What decodeAudioData rejects with.
DecodeErrorMessage == "Unable to decode audio data"

\* What MistralClient.transcribe throws on a response that is not ok
\* (MistralClient.ts lines 92-105); the empty message is an Error without one.
TranscribeErrors ==
    {"HTTP 401: Unauthorized", "HTTP 500: Internal Server Error", ""}

\* App.tsx lines 543-546: the message has "401" or "unauthorized" in it.
MentionsUnauthorized(message) == message \in {"HTTP 401: Unauthorized"}

\* The texts a transcription returns, as sequences of characters.
Transcripts == {<<>>, <<"a">>}

\* Mutant: the texts are joined last to first.
RECURSIVE joinReversed(_, _)
joinReversed(results, separator) ==
    IF Len(results) = 0 THEN <<>>
    ELSE IF Len(results) = 1 THEN results[1]
    ELSE joinReversed(Tail(results), separator) \o separator \o results[1]

\* Array.prototype.join
RECURSIVE join(_, _)
join(results, separator) ==
    IF Len(results) = 0 THEN <<>>
    ELSE IF Len(results) = 1 THEN results[1]
    ELSE results[1] \o separator \o join(Tail(results), separator)

\* AudioProcessor.ts lines 167-173: normalizeAudio(file), run to its end.
normalizeAudio(file) ==
    IF ~file.decodable
    THEN [pc |-> "rejected"]
    ELSE LET normalized == resampleToMono16k(file.decoded)
         IN  [pc |-> "resolved",
              blob |-> createWavBlob(getChannelData(normalized), normalized.sampleRate)]

\* AudioProcessor.ts lines 175-219: splitAudio(file), run to its end.
RECURSIVE RunSplit(_)
RunSplit(s) == IF s.pc = "loop" THEN RunSplit(SplitIteration(s)) ELSE s

splitAudio(file) ==
    RunSplit(SplitDecoded(SplitCall(file,
                                    DefaultSegmentDuration * TicksPerSecond,
                                    DefaultOverlap * TicksPerSecond)))

\* A file the user hands over: what isSupportedAudioFile says of it, and
\* what the audio element and the decoder make of it.
UserFile(supported, media, duration, ok, buffer) ==
    [supported |-> supported, media |-> media, duration |-> duration,
     decodable |-> ok, decoded |-> buffer]

\* Lines 477-485: processAudio up to its first await.
ProcessCall(file) ==
    [pc |-> "probe",
     file |-> file,
     probe |-> ProbeCall(file),
     duration |-> NaNNumber,
     path |-> "none",
     splitCalls |-> 0,
     normalizeCalls |-> 0,
     chunks |-> <<>>,
     i |-> 0,
     calls |-> <<>>,
     results |-> <<>>]

\* A step of processAudio works on the component's state and on the call:
\* c = [app |-> ..., op |-> ...].

\* Mutant: the catch block shows the texts that did come back.
CatchKeepingPartial(c, message) ==
    IF Len(c.op.results) > 0
    THEN [app |-> [c.app EXCEPT !.transcription = join(c.op.results, <<" ">>),
                                !.error = message,
                                !.status = "done"],
          op |-> [c.op EXCEPT !.pc = "caught"]]
    ELSE [app |-> [c.app EXCEPT !.error = ERROR_MESSAGES.processingFailed,
                                !.status = "error"],
          op |-> [c.op EXCEPT !.pc = "caught"]]

\* Lines 537-555: the catch block.
Catch(c, message) ==
    LET errorMessage == IF message = "" THEN ERROR_MESSAGES.processingFailed
                        ELSE message
    IN  IF MentionsUnauthorized(errorMessage)
        THEN [app |-> [c.app EXCEPT !.error = ERROR_MESSAGES.invalidApiKey,
                                    !.showSettings = TRUE,
                                    !.status = "error"],
              op |-> [c.op EXCEPT !.pc = "caught"]]
        ELSE [app |-> [c.app EXCEPT !.error = errorMessage,
                                    !.status = "error"],
              op |-> [c.op EXCEPT !.pc = "caught"]]

\* Lines 525-536: join the results and show them.
Finish(c) ==
    [app |-> [c.app EXCEPT !.transcription = join(c.op.results, <<" ">>),
                           !.status = "done"],
     op |-> [c.op EXCEPT !.pc = "returned"]]

\* Lines 501, 516: client.transcribe(blob) is called; the request is out.
Transcribe(op, index, blob) ==
    [op EXCEPT !.pc = "transcribe",
               !.calls = Append(@, [index |-> index, blob |-> blob,
                                    state |-> "inflight", text |-> <<>>])]

\* Lines 498-501: the for loop's test, and the call it admits.
LoopStep(c) ==
    IF c.op.i < Len(c.op.chunks)
    THEN [app |-> c.app, op |-> Transcribe(c.op, c.op.i, c.op.chunks[c.op.i + 1])]
    ELSE Finish(c)

\* Mutant: the threshold is taken to be reached at 900 s already.
IsLongAudioInclusive(duration) ==
    \/ duration.kind = "Infinity"
    \/ duration.kind = "finite" /\ duration.num >= LongAudioSeconds * duration.den

\* Line 491: duration > 900.
IsLongAudio(duration) == GreaterThan(duration, LongAudioSeconds)

\* Lines 485-494, 507-510: getAudioDuration has settled: choose the path and
\* call splitAudio or normalizeAudio; a rejection goes to the catch block.
AfterProbe(c) ==
    LET p == c.op.probe
    IN  IF p.promise = "rejected" THEN Catch(c, p.message)
        ELSE IF p.promise = "pending" THEN c
        ELSE IF IsLongAudio(p.duration)
             THEN [app |-> c.app,
                   op |-> [c.op EXCEPT !.pc = "split",
                                       !.duration = p.duration,
                                       !.path = "split",
                                       !.splitCalls = @ + 1]]
             ELSE [app |-> c.app,
                   op |-> [c.op EXCEPT !.pc = "normalize",
                                       !.duration = p.duration,
                                       !.path = "normalize",
                                       !.normalizeCalls = @ + 1]]

\* Lines 494-501: splitAudio has settled.
AfterSplit(c, r) ==
    IF r.pc = "rejected"
    THEN Catch(c, DecodeErrorMessage)
    ELSE LoopStep([app |-> [c.app EXCEPT !.status = "transcribing"],
                   op |-> [c.op EXCEPT !.chunks = r.chunks, !.i = 0]])

\* Lines 510-516: normalizeAudio has settled.
AfterNormalize(c, r) ==
    IF r.pc = "rejected"
    THEN Catch(c, DecodeErrorMessage)
    ELSE [app |-> [c.app EXCEPT !.status = "transcribing"],
          op |-> Transcribe(c.op, 0, r.blob)]

\* The call in flight has returned or thrown.
Settled(op, state) == [op EXCEPT !.calls[Len(op.calls)].state = state]

\* Mutant: a chunk whose call failed is left out and the loop goes on.
AfterTranscribeSkippingFailures(c, outcome) ==
    IF c.op.path = "split"
    THEN LoopStep([app |-> c.app,
                   op |-> [Settled(c.op, IF outcome.ok THEN "ok" ELSE "failed")
                              EXCEPT !.results = IF outcome.ok
                                                 THEN Append(@, outcome.text)
                                                 ELSE @,
                                     !.i = @ + 1]])
    ELSE IF ~outcome.ok
         THEN Catch([app |-> c.app, op |-> Settled(c.op, "failed")], outcome.message)
         ELSE Finish([app |-> c.app,
                      op |-> [Settled(c.op, "ok") EXCEPT
                                 !.results = Append(@, outcome.text)]])

\* Mutant: a chunk whose call failed is submitted a second time.
AfterTranscribeRetrying(c, outcome) ==
    IF ~outcome.ok
    THEN IF c.op.path = "split"
            /\ Cardinality({k \in 1..Len(c.op.calls) : c.op.calls[k].index = c.op.i}) < 2
         THEN LoopStep([app |-> c.app, op |-> Settled(c.op, "failed")])
         ELSE Catch([app |-> c.app, op |-> Settled(c.op, "failed")], outcome.message)
    ELSE LET pushed == [Settled(c.op, "ok") EXCEPT
                           !.results = Append(@, outcome.text),
                           !.calls[Len(c.op.calls)].text = outcome.text]
         IN  IF c.op.path = "split"
             THEN LoopStep([app |-> c.app, op |-> [pushed EXCEPT !.i = @ + 1]])
             ELSE Finish([app |-> c.app, op |-> pushed])

\* Lines 501-506, 516-523: client.transcribe has settled.
AfterTranscribe(c, outcome) ==
    IF ~outcome.ok
    THEN Catch([app |-> c.app, op |-> Settled(c.op, "failed")], outcome.message)
    ELSE LET pushed == [Settled(c.op, "ok") EXCEPT
                           !.results = Append(@, outcome.text),
                           !.calls[Len(c.op.calls)].text = outcome.text]
         IN  IF c.op.path = "split"
             THEN LoopStep([app |-> c.app, op |-> [pushed EXCEPT !.i = @ + 1]])
             ELSE Finish([app |-> c.app, op |-> pushed])

TranscribeOutcomes ==
    {[ok |-> TRUE, text |-> text, message |-> ""] : text \in Transcripts}
    \cup {[ok |-> FALSE, text |-> <<>>, message |-> m] : m \in TranscribeErrors}

FreeOps == {o \in 1..MaxOps : ops[o].pc = "none"}
FirstFreeOp == CHOOSE o \in FreeOps : \A other \in FreeOps : o <= other

\* Lines 459-485: processAudio(file) up to its first await.  Without an API
\* key it reports that and returns.
processAudio(file) ==
    IF app.apiKey = ""
    THEN /\ app' = [app EXCEPT !.error = ERROR_MESSAGES.missingApiKey,
                               !.showSettings = TRUE]
         /\ UNCHANGED ops
    ELSE /\ FreeOps # {}
         /\ app' = [app EXCEPT !.error = "",
                               !.transcription = <<>>,
                               !.status = "processing"]
         /\ ops' = [ops EXCEPT ![FirstFreeOp] = ProcessCall(file)]

\* The component's state and call o after a step of the call.
Continue(o, c) ==
    /\ app' = c.app
    /\ ops' = [ops EXCEPT ![o] = c.op]

\* The files of the App specification.  Lengths are in frames of the decoded
\* buffer; 14400000 frames at 16 kHz are 900 s.
UserFiles ==
    { UserFile(FALSE, "error", NaNNumber, FALSE, AudioBuffer(1, targetSampleRate, 1)),
      \* one second of 48 kHz stereo
      UserFile(TRUE, "loadedmetadata", Finite(1, 1), TRUE, AudioBuffer(2, 48000, 48000)),
      \* 900 s exactly, and one frame more
      UserFile(TRUE, "loadedmetadata", Finite(LongAudioSeconds, 1), TRUE,
               AudioBuffer(1, targetSampleRate, 14400000)),
      UserFile(TRUE, "loadedmetadata", Finite(14400001, targetSampleRate), TRUE,
               AudioBuffer(1, targetSampleRate, 14400001)),
      \* 1875 s: three chunks
      UserFile(TRUE, "loadedmetadata", Finite(1875, 1), TRUE,
               AudioBuffer(1, targetSampleRate, 30000000)),
      \* the element cannot load the metadata
      UserFile(TRUE, "error", NaNNumber, TRUE, AudioBuffer(1, targetSampleRate, 30000000)),
      \* no usable duration in the metadata: long, short, and undecodable
      UserFile(TRUE, "loadedmetadata", Infinity, TRUE,
               AudioBuffer(1, targetSampleRate, 14400001)),
      UserFile(TRUE, "loadedmetadata", NaNNumber, TRUE,
               AudioBuffer(1, targetSampleRate, 14400000)),
      UserFile(TRUE, "loadedmetadata", Finite(0, 1), FALSE,
               AudioBuffer(1, targetSampleRate, 1)),
      \* a duration in the metadata, and a file the decoder refuses
      UserFile(TRUE, "loadedmetadata", Finite(1, 1), FALSE,
               AudioBuffer(1, targetSampleRate, 1)),
      UserFile(TRUE, "loadedmetadata", Finite(1875, 1), FALSE,
               AudioBuffer(1, targetSampleRate, 1)),
      \* metadata and decoded audio that disagree
      UserFile(TRUE, "loadedmetadata", Finite(1000, 1), TRUE,
               AudioBuffer(1, targetSampleRate, 16000)),
      UserFile(TRUE, "loadedmetadata", Finite(10, 1), TRUE,
               AudioBuffer(1, targetSampleRate, 30000000)) }

\* Lines 289-301 and 303-319: handleFileUpload and handleDrop; the input
\* area is rendered while the status is idle or error (line 948).
handleFileUpload ==
    /\ app.status \in {"idle", "error"}
    /\ \E file \in UserFiles :
          IF ~file.supported
          THEN /\ app' = [app EXCEPT !.error = ERROR_MESSAGES.invalidAudioFile,
                                     !.status = "error"]
               /\ UNCHANGED ops
          ELSE processAudio(file)
    /\ UNCHANGED <<processor, probe, split, norm, http>>

\* Lines 622-628: the logo button.
goHome ==
    /\ app' = [app EXCEPT !.status = "idle", !.transcription = <<>>, !.error = ""]
    /\ UNCHANGED <<processor, probe, split, norm, ops, http>>

\* Lines 1099-1106: the "Transcribe Another File" button of the result card.
transcribeAnother ==
    /\ app.status = "done"
    /\ app' = [app EXCEPT !.status = "idle"]
    /\ UNCHANGED <<processor, probe, split, norm, ops, http>>

\* The audio element of call o fires its event, and processAudio goes on if
\* that settles getAudioDuration.
AudioElementEvent(o) ==
    /\ ops[o].pc = "probe"
    /\ ops[o].probe.event = "none"
    /\ LET p == IF ops[o].file.media = "loadedmetadata"
                THEN onloadedmetadata(ops[o].probe)
                ELSE onerror(ops[o].probe)
       IN  Continue(o, AfterProbe([app |-> app, op |-> [ops[o] EXCEPT !.probe = p]]))
    /\ UNCHANGED <<processor, probe, split, norm, http>>

\* The decode fallback of call o's getAudioDuration settles.
DurationFallbackSettles(o) ==
    /\ ops[o].pc = "probe"
    /\ ops[o].probe.fallback = "pending"
    /\ LET p == FallbackSettled(ops[o].probe)
       IN  Continue(o, AfterProbe([app |-> app, op |-> [ops[o] EXCEPT !.probe = p]]))
    /\ processor' = getContext(processor)
    /\ UNCHANGED <<probe, split, norm, http>>

\* splitAudio of call o settles.
SplitAudioSettles(o) ==
    /\ ops[o].pc = "split"
    /\ Continue(o, AfterSplit([app |-> app, op |-> ops[o]], splitAudio(ops[o].file)))
    /\ processor' = getContext(processor)
    /\ UNCHANGED <<probe, split, norm, http>>

\* normalizeAudio of call o settles.
NormalizeAudioSettles(o) ==
    /\ ops[o].pc = "normalize"
    /\ Continue(o, AfterNormalize([app |-> app, op |-> ops[o]],
                                  normalizeAudio(ops[o].file)))
    /\ processor' = getContext(processor)
    /\ UNCHANGED <<probe, split, norm, http>>

\* The transcribe call of call o that is in flight settles.
TranscribeSettles(o) ==
    /\ ops[o].pc = "transcribe"
    /\ \E outcome \in TranscribeOutcomes :
          Continue(o, AfterTranscribe([app |-> app, op |-> ops[o]], outcome))
    /\ UNCHANGED <<processor, probe, split, norm, http>>

---------------------------------------------------------------------------
(* App.tsx: recording.  app.useNativeRecorder is tauriEnv && linuxEnv;      *)
(* app.recorder is the recorder in use: none, the MediaRecorder of          *)
(* mediaRecorderRef (recording, stopping: stop() called and the stop event  *)
(* not yet fired, inactive), or the native one (native, finalizing).        *)

\* The files a recording makes: a WebM without a duration in its header,
\* short and longer than 900 s; a WAV of the native recorder; and a
\* recording without any audio in it.
RecordedFiles ==
    { UserFile(TRUE, "loadedmetadata", Infinity, TRUE, AudioBuffer(1, 48000, 48000)),
      UserFile(TRUE, "loadedmetadata", Infinity, TRUE,
               AudioBuffer(1, targetSampleRate, 14400001)),
      UserFile(TRUE, "loadedmetadata", Finite(1, 1), TRUE,
               AudioBuffer(1, targetSampleRate, 16000)),
      UserFile(TRUE, "error", NaNNumber, FALSE, AudioBuffer(1, targetSampleRate, 1)) }

\* Lines 321-410: startRecording, with how the recorder answers; the button
\* is in the input area (lines 948, 995-996).
startRecording ==
    /\ app.status \in {"idle", "error"}
    /\ \E started \in BOOLEAN :
          IF app.useNativeRecorder
          THEN IF started
               THEN app' = [app EXCEPT !.error = "", !.status = "recording",
                                       !.recorder = "native"]
               ELSE app' = [app EXCEPT !.error = "Native microphone error",
                                       !.status = "error"]
          ELSE IF started
               THEN app' = [app EXCEPT !.status = "recording",
                                       !.recorder = "recording"]
               ELSE app' = [app EXCEPT !.error = "Microphone access failed",
                                       !.status = "error"]
    /\ UNCHANGED <<processor, probe, split, norm, ops, http>>

\* Lines 412-440: stopRecording, up to its await (native) or through
\* mediaRecorder.stop(), which throws on a recorder that is not recording.
stopRecording ==
    /\ app.status = "recording"
    /\ IF app.useNativeRecorder
       THEN app' = [app EXCEPT !.status = "processing",
                               !.recorder = IF @ = "native" THEN "finalizing" ELSE @]
       ELSE IF app.recorder = "recording"
            THEN app' = [app EXCEPT !.recorder = "stopping"]
            ELSE app' = app
    /\ UNCHANGED <<processor, probe, split, norm, ops, http>>

\* Lines 422-433: stop_native_recording settles: processAudio on the WAV it
\* returned, or the catch block.
NativeStopSettles ==
    /\ app.recorder = "finalizing"
    /\ \/ \E file \in RecordedFiles :
             LET stopped == [app EXCEPT !.recorder = "none"]
             IN  IF app.apiKey = ""
                 THEN /\ app' = [stopped EXCEPT
                                    !.error = ERROR_MESSAGES.missingApiKey,
                                    !.showSettings = TRUE]
                      /\ UNCHANGED ops
                 ELSE /\ FreeOps # {}
                      /\ app' = [stopped EXCEPT !.error = "",
                                                !.transcription = <<>>,
                                                !.status = "processing"]
                      /\ ops' = [ops EXCEPT ![FirstFreeOp] = ProcessCall(file)]
       \/ /\ app' = [app EXCEPT !.recorder = "none",
                                !.error = "Native microphone error",
                                !.status = "error"]
          /\ UNCHANGED ops
    /\ UNCHANGED <<processor, probe, split, norm, http>>

\* Lines 383-399: mediaRecorder.onstop: processAudio on the recorded file.
onstop ==
    /\ app.recorder = "stopping"
    /\ \E file \in RecordedFiles :
          LET stopped == [app EXCEPT !.recorder = "inactive"]
          IN  IF app.apiKey = ""
              THEN /\ app' = [stopped EXCEPT
                                 !.error = ERROR_MESSAGES.missingApiKey,
                                 !.showSettings = TRUE]
                   /\ UNCHANGED ops
              ELSE /\ FreeOps # {}
                   /\ app' = [stopped EXCEPT !.error = "",
                                             !.transcription = <<>>,
                                             !.status = "processing"]
                   /\ ops' = [ops EXCEPT ![FirstFreeOp] = ProcessCall(file)]
    /\ UNCHANGED <<processor, probe, split, norm, http>>

InitRecorder ==
    /\ app \in {[InitialApp(apiKey) EXCEPT !.useNativeRecorder = native] :
                   apiKey \in {"", "sk-key"}, native \in BOOLEAN}
    /\ ops = NoOps
    /\ http = NoHttp
    /\ processor = NewProcessor
    /\ probe = NoProbe
    /\ split = NoSplit
    /\ norm = NoNormalize

\* Lines 1056-1096: the result card, with the transcript in its textarea, is
\* rendered while the status is done; no other element shows the transcript.
ExposedTranscript == IF app.status = "done" THEN app.transcription ELSE <<>>

InitApp ==
    /\ app \in {InitialApp(apiKey) : apiKey \in {"", "sk-key"}}
    /\ ops = NoOps
    /\ http = NoHttp
    /\ processor = NewProcessor
    /\ probe = NoProbe
    /\ split = NoSplit
    /\ norm = NoNormalize

NextApp ==
    \/ handleFileUpload
    \/ goHome
    \/ transcribeAnother
    \/ \E o \in 1..MaxOps : AudioElementEvent(o)
    \/ \E o \in 1..MaxOps : DurationFallbackSettles(o)
    \/ \E o \in 1..MaxOps : SplitAudioSettles(o)
    \/ \E o \in 1..MaxOps : NormalizeAudioSettles(o)
    \/ \E o \in 1..MaxOps : TranscribeSettles(o)

SpecApp == InitApp /\ [][NextApp]_vars

NextRecorder ==
    \/ startRecording
    \/ stopRecording
    \/ NativeStopSettles
    \/ onstop
    \/ goHome
    \/ transcribeAnother
    \/ \E o \in 1..MaxOps : AudioElementEvent(o)
    \/ \E o \in 1..MaxOps : DurationFallbackSettles(o)
    \/ \E o \in 1..MaxOps : SplitAudioSettles(o)
    \/ \E o \in 1..MaxOps : NormalizeAudioSettles(o)
    \/ \E o \in 1..MaxOps : TranscribeSettles(o)

SpecRecorder == InitRecorder /\ [][NextRecorder]_vars

---------------------------------------------------------------------------
(* JavaScript values of a parsed JSON body.  A response body is kept as its *)
(* text together with what JSON.parse makes of that text.                   *)

Undefined == [type |-> "undefined"]
JNull == [type |-> "null"]
JString(value) == [type |-> "string", value |-> value]
JObject(fields) == [type |-> "object", fields |-> fields]
SyntaxError == [type |-> "SyntaxError"]

\* value[name]; a string has no such property.
Get(value, name) ==
    IF value.type = "object" /\ name \in DOMAIN value.fields
    THEN value.fields[name]
    ELSE Undefined

\* value[name] throws a TypeError.
GetThrows(value) == value.type \in {"undefined", "null"}

\* ToBoolean(value)
Truthy(value) ==
    CASE value.type = "string" -> value.value # ""
      [] value.type = "object" -> TRUE
      [] OTHER -> FALSE

Body(text, json) == [text |-> text, json |-> json]

\* No response has arrived.
NoResponse == [status |-> 0, body |-> Body("", SyntaxError)]

\* response.ok
ResponseOk(response) == response.status >= 200 /\ response.status <= 299

---------------------------------------------------------------------------
(* MistralClient.ts *)

\* Lines 5-10: new MistralClient(...args); arguments after the first are
\* dropped, as JavaScript does with arguments a function does not name.
NewMistralClient(args) ==
    [apiKey |-> args[1], baseUrl |-> "https://api.mistral.ai/v1"]

\* Line 79: the model of the form.
TranscribeModel(args) == "voxtral-mini-latest"

\* Lines 77-90: the request transcribe sends.
TranscribeRequest(client, args, audioBlob) ==
    [url |-> client.baseUrl \o "/audio/transcriptions",
     method |-> "POST",
     headers |-> [Authorization |-> "Bearer " \o client.apiKey],
     form |-> [file |-> audioBlob, model |-> TranscribeModel(args)]]

\* Mutant: the body is never parsed.
TranscribeErrorMessageOfText(response) ==
    "HTTP " \o ToString(response.status) \o ": " \o response.body.text

\* Lines 95-107: the message of the Error thrown for a response that is not
\* ok.
TranscribeErrorMessage(response) ==
    LET errorText == response.body.text
        errorMessage == "HTTP " \o ToString(response.status) \o ": " \o errorText
        json == response.body.json
    IN  IF json = SyntaxError \/ GetThrows(json)
        THEN errorMessage
        ELSE IF Truthy(Get(json, "error"))
                /\ Truthy(Get(Get(json, "error"), "message"))
             THEN Get(Get(json, "error"), "message").value
             ELSE errorMessage

\* Lines 94-112: what transcribe does with the response.
TranscribeSettled(call, response) ==
    IF ~ResponseOk(response)
    THEN [call EXCEPT !.pc = "rejected", !.response = response,
                      !.message = TranscribeErrorMessage(response)]
    ELSE IF response.body.json = SyntaxError
         THEN [call EXCEPT !.pc = "rejected", !.response = response,
                           !.message = "SyntaxError"]
         ELSE IF GetThrows(response.body.json)
              THEN [call EXCEPT !.pc = "rejected", !.response = response,
                                !.message = "TypeError"]
              ELSE [call EXCEPT !.pc = "resolved", !.response = response,
                                !.value = Get(response.body.json, "text")]

\* A call of transcribe on a client made with the given arguments, its
\* request sent.
TranscribeCall(args, audioBlob) ==
    [client |-> "mistral",
     pc |-> "sent",
     args |-> args,
     request |-> TranscribeRequest(NewMistralClient(args), args, audioBlob),
     response |-> NoResponse,
     message |-> "",
     value |-> Undefined]

MistralStatuses == {200, 201, 299, 300, 401, 404, 500, 504}

MistralBodies ==
    { Body("gateway timeout", SyntaxError),
      Body("", SyntaxError),
      Body("null", JNull),
      Body("{\"text\":\"transcribed text\"}",
           JObject([text |-> JString("transcribed text")])),
      Body("{\"error\":{\"message\":\"Invalid API key\"}}",
           JObject([error |-> JObject([message |-> JString("Invalid API key")])])),
      Body("{\"error\":{\"message\":\"\"}}",
           JObject([error |-> JObject([message |-> JString("")])])),
      Body("{\"error\":{\"code\":\"3000\"}}",
           JObject([error |-> JObject([code |-> JString("3000")])])),
      Body("{\"error\":\"Unauthorized\"}",
           JObject([error |-> JString("Unauthorized")])),
      Body("{\"message\":\"Unauthorized\"}",
           JObject([message |-> JString("Unauthorized")])) }

\* The response of the transcription endpoint arrives.
MistralResponds ==
    /\ http.pc = "sent"
    /\ http.client = "mistral"
    /\ \E status \in MistralStatuses, body \in MistralBodies :
          http' = TranscribeSettled(http, [status |-> status, body |-> body])
    /\ UNCHANGED <<processor, probe, split, norm, app, ops>>

\* The caller reads the outcome of the call.
MistralReturns ==
    /\ http.pc \in {"resolved", "rejected"}
    /\ http.client = "mistral"
    /\ http' = [http EXCEPT !.pc = IF @ = "resolved" THEN "returned" ELSE "thrown"]
    /\ UNCHANGED <<processor, probe, split, norm, app, ops>>

MistralArguments ==
    {<<key>> : key \in {"secret-key", "bad-key"}}
        \cup {<<key, model>> : key \in {"secret-key"},
                               model \in {"mistral-small", "voxtral-mini-latest"}}

InitMistral ==
    /\ http \in {TranscribeCall(args, createWavBlob(getChannelData(b), b.sampleRate)) :
                    args \in MistralArguments,
                    b \in {AudioBuffer(1, targetSampleRate, n) : n \in 1..MaxSamples}}
    /\ processor = NewProcessor
    /\ probe = NoProbe
    /\ split = NoSplit
    /\ norm = NoNormalize
    /\ app = InitialApp("")
    /\ ops = NoOps

NextMistral == MistralResponds \/ MistralReturns

SpecMistral == InitMistral /\ [][NextMistral]_vars

---------------------------------------------------------------------------
(* deepLClient.ts and the /deepl-proxy route of server.ts *)

JNumber(value) == [type |-> "number", value |-> value]
JArray(items) == [type |-> "array", items |-> items]

\* JSON.stringify(value), kept as the value it is the text of.
JSONStringify(value) == [json |-> value]

\* JSON.parse of a text JSON.stringify made.
JSONParse(text) == text.json

NoHeaders == [name \in {} |-> ""]

\* Lines 64-72: new DeepLError(message, statusCode?)
DeepLError(message, statusCode) ==
    [name |-> "DeepLError", message |-> message, statusCode |-> statusCode]

\* An Error the runtime throws (SyntaxError, TypeError).
RuntimeError(name) == [name |-> name, message |-> "", statusCode |-> Undefined]

NoError == [name |-> "", message |-> "", statusCode |-> Undefined]

\* Lines 83-87: get baseUrl()
baseUrl(plan) ==
    IF plan = "pro" THEN "https://api.deepl.com/v2" ELSE "https://api-free.deepl.com/v2"

\* Line 97 with utils/platform.ts: Tauri is tested first.
isCapacitor(runtime) == ~runtime.tauri /\ runtime.capacitor

\* Lines 230-257: the arguments translateText passes to request.  An option
\* is copied into the body under its API name when it is given.
OptionNames ==
    [sourceLang |-> "source_lang", formality |-> "formality", modelType |-> "model_type",
     preserveFormatting |-> "preserve_formatting", splitSentences |-> "split_sentences"]

\* Lines 235-249: an option absent from the call is "undefined" here; the
\* first three are copied when truthy, the last two when defined.
OptionGiven(name, value) ==
    IF name \in {"preserveFormatting", "splitSentences"}
    THEN value # "undefined"
    ELSE value \notin {"undefined", ""}

TranslateBody(texts, targetLang, options) ==
    [text |-> texts,
     target_lang |-> targetLang,
     options |-> {<<OptionNames[name], options[name]>> :
                     name \in {n \in DOMAIN options : OptionGiven(n, options[n])}}]

TranslateInit(texts, targetLang, options) ==
    [method |-> "POST",
     headers |-> ("Content-Type" :> "application/json"),
     body |-> JSONStringify(TranslateBody(texts, targetLang, options))]

\* Line 266: the arguments getUsage passes to request.
UsageInit == [method |-> "GET", headers |-> NoHeaders, body |-> Undefined]

\* Lines 101-110: the options handed to CapacitorHttp.request.
CapacitorRequest(client, path, init) ==
    [via |-> "CapacitorHttp",
     url |-> baseUrl(client.plan) \o path,
     method |-> init.method,
     headers |-> init.headers @@ ("Authorization" :> ("DeepL-Auth-Key " \o client.apiKey)),
     body |-> IF init.body = Undefined THEN Undefined ELSE JSONParse(init.body)]

\* Lines 125-149: the arguments of the deepl_request command.
TauriRequest(client, path, init) ==
    [via |-> "deepl_request",
     url |-> baseUrl(client.plan) \o path,
     method |-> init.method,
     headers |-> ("Authorization" :> ("DeepL-Auth-Key " \o client.apiKey)) @@ init.headers,
     body |-> IF init.body = Undefined THEN JNull ELSE init.body]

\* Mutant: the browser calls DeepL itself.
FetchRequestDirect(client, path, init) ==
    [via |-> "fetch",
     url |-> baseUrl(client.plan) \o path,
     method |-> init.method,
     headers |-> ("Authorization" :> ("DeepL-Auth-Key " \o client.apiKey)) @@ init.headers,
     body |-> init.body]

\* Lines 125-127, 185-190: the browser's fetch of the proxy route.
FetchRequest(client, path, init) ==
    [via |-> "fetch",
     url |-> "/deepl-proxy/" \o client.plan \o path,
     method |-> init.method,
     headers |-> ("X-DeepL-Auth-Key" :> client.apiKey) @@ init.headers,
     body |-> init.body]

\* Lines 93-190: the request a call of request(path, init) sends.
Request(client, runtime, path, init) ==
    IF isCapacitor(runtime) THEN CapacitorRequest(client, path, init)
    ELSE IF runtime.tauri THEN TauriRequest(client, path, init)
    ELSE FetchRequest(client, path, init)

DeepLPlans == {"free", "pro"}
DeepLPaths == {"/translate", "/usage"}

\* server.ts 22-25: plan and API path read back from the path of the route.
ProxyRoute(url) ==
    CHOOSE route \in DeepLPlans \X DeepLPaths :
        "/deepl-proxy/" \o route[1] \o route[2] = url

\* server.ts 27-46: the request the proxy sends to DeepL.
ProxyRequest(request) ==
    LET route == ProxyRoute(request.url)
        authKey == IF "X-DeepL-Auth-Key" \in DOMAIN request.headers
                   THEN request.headers["X-DeepL-Auth-Key"] ELSE ""
        contentType == IF "Content-Type" \in DOMAIN request.headers
                       THEN ("Content-Type" :> request.headers["Content-Type"])
                       ELSE NoHeaders
    IN  [via |-> "proxy",
         url |-> baseUrl(route[1]) \o route[2],
         method |-> request.method,
         headers |-> ("Authorization" :> ("DeepL-Auth-Key " \o authKey)) @@ contentType,
         body |-> IF request.method = "GET" THEN Undefined ELSE request.body]

NoRequest == [via |-> "none"]

\* server.ts 22: the route is taken for paths under /deepl-proxy/.
IsProxyRoute(url) ==
    \E route \in DeepLPlans \X DeepLPaths :
        "/deepl-proxy/" \o route[1] \o route[2] = url

\* server.ts 53-58: the answer of the proxy when its own fetch fails.
ProxyFailure ==
    [status |-> 502,
     body |-> Body("{\"message\":\"Error: connect failed\"}",
                   JObject([message |-> JString("Error: connect failed")]))]

\* response.data of CapacitorHttp: the parsed body when it is JSON, its text
\* otherwise.
CapacitorData(body) == IF body.json = SyntaxError THEN JString(body.text) ELSE body.json

\* JSON.stringify(response.data) of line 117, for bodies in compact form.
StringifyData(body) ==
    IF body.json = SyntaxError THEN "\"" \o body.text \o "\"" ELSE body.text

\* Lines 157-180: the failure of the Tauri path.  The texts have "--" where
\* the source has a dash outside ASCII.
TauriStatusMessage(status, body) ==
    CASE status = 400 -> "Bad request -- check source/target language codes."
      [] status = 403 -> "Authentication failed -- check your DeepL API key."
      [] status = 404 -> "Requested resource not found."
      [] status = 413 -> "Request too large -- text exceeds DeepL size limits."
      [] status = 429 -> "Too many requests -- please wait before retrying."
      [] status = 456 -> "Quota exceeded -- you have used up your character limit."
      [] status = 500 -> "DeepL internal server error."
      [] status = 529 -> "DeepL is temporarily unavailable -- please try again later."
      [] OTHER -> IF body # ""
                  THEN "HTTP " \o ToString(status) \o ": " \o body
                  ELSE "HTTP " \o ToString(status)

\* Lines 195-219: the failure of the browser path.
FetchStatusMessage(status, bodyText) ==
    CASE status = 400 -> "Bad request -- check source/target language codes."
      [] status = 403 -> "Authentication failed -- check your DeepL API key."
      [] status = 404 -> "Requested resource not found."
      [] status = 413 -> "Request too large -- text exceeds DeepL size limits."
      [] status = 429 -> "Too many requests -- please wait before retrying."
      [] status = 456 -> "Quota exceeded -- you have used up your character limit."
      [] status = 500 -> "DeepL internal server error."
      [] status = 529 -> "DeepL is temporarily unavailable -- please try again later."
      [] OTHER -> IF bodyText # ""
                  THEN "HTTP " \o ToString(status) \o ": " \o bodyText
                  ELSE "HTTP " \o ToString(status)

Resolved(value) == [pc |-> "resolved", value |-> value, error |-> NoError]
Rejected(error) == [pc |-> "rejected", value |-> Undefined, error |-> error]

\* Lines 112-121, 156-182, 195-222: what request makes of a response.
RequestOutcome(runtime, response) ==
    LET status == response.status
        body == response.body
    IN  IF isCapacitor(runtime)
        THEN IF status >= 200 /\ status < 300
             THEN Resolved(CapacitorData(body))
             ELSE Rejected(DeepLError(
                      "HTTP " \o ToString(status) \o ": " \o StringifyData(body),
                      JNumber(status)))
        ELSE IF runtime.tauri
        THEN IF status < 200 \/ status >= 300
             THEN Rejected(DeepLError(TauriStatusMessage(status, body.text),
                                      JNumber(status)))
             ELSE IF body.json = SyntaxError
                  THEN Rejected(RuntimeError("SyntaxError"))
                  ELSE Resolved(body.json)
        ELSE IF ~ResponseOk(response)
             THEN Rejected(DeepLError(FetchStatusMessage(status, body.text),
                                      JNumber(status)))
             ELSE IF body.json = SyntaxError
                  THEN Rejected(RuntimeError("SyntaxError"))
                  ELSE Resolved(body.json)

\* Lines 120, 153, 192: what request makes of a transport failure.
NetworkErrorMessage(runtime, message) ==
    IF isCapacitor(runtime)
    THEN "Capacitor Network Error: " \o (IF message # "" THEN message ELSE "Failed to fetch")
    ELSE IF runtime.tauri
    THEN "Network error: " \o message \o "."
    ELSE "Network error: " \o (IF message # "" THEN message ELSE "Failed to fetch")
             \o ". This might be a CORS issue or network problem."

\* Lines 259-262: translateText maps the translations of the result.
Translation(t) ==
    [detectedSourceLanguage |-> Get(t, "detected_source_language"),
     text |-> Get(t, "text")]

\* Lines 251-266: what translateText and getUsage make of the outcome of
\* request.
MethodOutcome(method, outcome) ==
    IF outcome.pc = "rejected" \/ method = "getUsage"
    THEN outcome
    ELSE LET translations == Get(outcome.value, "translations")
         IN  IF translations.type = "array"
             THEN Resolved(JArray([i \in DOMAIN translations.items |->
                                      Translation(translations.items[i])]))
             ELSE Rejected(RuntimeError("TypeError"))

\* A call of translateText or getUsage, its request sent.
DeepLCall(apiKey, plan, runtime, method, path, init) ==
    [client |-> "deepl",
     pc |-> "sent",
     apiKey |-> apiKey,
     plan |-> plan,
     runtime |-> runtime,
     method |-> method,
     path |-> path,
     request |-> Request([apiKey |-> apiKey, plan |-> plan], runtime, path, init),
     upstream |-> NoRequest,
     response |-> NoResponse,
     value |-> Undefined,
     error |-> NoError]

translateText(apiKey, plan, runtime, texts, targetLang, options) ==
    DeepLCall(apiKey, plan, runtime, "translateText", "/translate",
              TranslateInit(texts, targetLang, options))

getUsage(apiKey, plan, runtime) ==
    DeepLCall(apiKey, plan, runtime, "getUsage", "/usage", UsageInit)

DeepLSettled(call, response) ==
    LET outcome == MethodOutcome(call.method, RequestOutcome(call.runtime, response))
    IN  [call EXCEPT !.pc = outcome.pc, !.response = response,
                     !.value = outcome.value, !.error = outcome.error]

DeepLStatuses == {200, 204, 400, 403, 404, 413, 429, 456, 500, 503, 529}

DeepLBodies ==
    { Body("", SyntaxError),
      Body("Forbidden", SyntaxError),
      Body("{\"message\":\"Quota Exceeded\"}",
           JObject([message |-> JString("Quota Exceeded")])),
      Body("{\"translations\":[{\"detected_source_language\":\"IT\",\"text\":\"Hello world\"}]}",
           JObject([translations |-> JArray(<<
               JObject([detected_source_language |-> JString("IT"),
                        text |-> JString("Hello world")])>>)])),
      Body("{\"character_count\":1,\"character_limit\":5}",
           JObject([character_count |-> JNumber(1), character_limit |-> JNumber(5)])) }

\* server.ts 41-46: in the browser the proxy passes the request on to DeepL.
DeepLProxyForwards ==
    /\ http.pc = "sent"
    /\ http.client = "deepl"
    /\ http.request.via = "fetch"
    /\ IsProxyRoute(http.request.url)
    /\ http' = [http EXCEPT !.pc = "forwarded", !.upstream = ProxyRequest(http.request)]
    /\ UNCHANGED <<processor, probe, split, norm, app, ops>>

\* server.ts 53-58: the proxy cannot reach DeepL and answers 502.
DeepLProxyFails ==
    /\ http.pc = "forwarded"
    /\ http.client = "deepl"
    /\ http' = DeepLSettled(http, ProxyFailure)
    /\ UNCHANGED <<processor, probe, split, norm, app, ops>>

\* DeepL answers; in the browser the proxy relays status and body
\* (server.ts 48-52).
DeepLResponds ==
    /\ http.client = "deepl"
    /\ http.pc = IF http.request.via = "fetch" THEN "forwarded" ELSE "sent"
    /\ \E status \in DeepLStatuses, body \in DeepLBodies :
          http' = DeepLSettled(http, [status |-> status, body |-> body])
    /\ UNCHANGED <<processor, probe, split, norm, app, ops>>

\* The transport fails: fetch, invoke or CapacitorHttp.request rejects.
DeepLNetworkError ==
    /\ http.client = "deepl"
    /\ http.pc = "sent"
    /\ \E message \in {"", "timeout"} :
          http' = [http EXCEPT !.pc = "rejected",
                               !.error = DeepLError(
                                   NetworkErrorMessage(http.runtime, message),
                                   Undefined)]
    /\ UNCHANGED <<processor, probe, split, norm, app, ops>>

\* The caller reads the outcome of the call.
DeepLReturns ==
    /\ http.client = "deepl"
    /\ http.pc \in {"resolved", "rejected"}
    /\ http' = [http EXCEPT !.pc = IF @ = "resolved" THEN "returned" ELSE "thrown"]
    /\ UNCHANGED <<processor, probe, split, norm, app, ops>>

Runtimes == [tauri : BOOLEAN, capacitor : BOOLEAN]

TranslateOptions ==
    { [sourceLang |-> "undefined", formality |-> "undefined", modelType |-> "undefined",
       preserveFormatting |-> "undefined", splitSentences |-> "undefined"],
      [sourceLang |-> "EN", formality |-> "more", modelType |-> "latency_optimized",
       preserveFormatting |-> "true", splitSentences |-> "0"],
      [sourceLang |-> "", formality |-> "undefined", modelType |-> "undefined",
       preserveFormatting |-> "false", splitSentences |-> "undefined"] }

InitDeepL ==
    /\ \E apiKey \in {"secret-key", "pro-key"}, plan \in DeepLPlans, runtime \in Runtimes :
          \/ http = getUsage(apiKey, plan, runtime)
          \/ \E options \in TranslateOptions :
                http = translateText(apiKey, plan, runtime, <<"Ciao mondo">>, "EN-US", options)
    /\ processor = NewProcessor
    /\ probe = NoProbe
    /\ split = NoSplit
    /\ norm = NoNormalize
    /\ app = InitialApp("")
    /\ ops = NoOps

NextDeepL ==
    \/ DeepLProxyForwards
    \/ DeepLProxyFails
    \/ DeepLResponds
    \/ DeepLNetworkError
    \/ DeepLReturns

SpecDeepL == InitDeepL /\ [][NextDeepL]_vars

---------------------------------------------------------------------------
(* Properties of splitAudio *)

Looping(s) == s.pc \in {"loop", "resolved"}

TotalFrames(s) == s.samples.length

ViewEnd(view) == view.offset + view.length

SliceEnd(slice) == slice.chunkStart + slice.chunkLength

ChunkLengths(s) == [k \in 1..Len(s.chunks) |-> s.chunks[k].samples.length]

\* The parameters of the segmentation law: totalFrames >= 1, S >= 1, 0 <= O <= S.
LawDomain(s) ==
    /\ TotalFrames(s) >= 1
    /\ s.segmentSamples >= 1
    /\ 0 <= s.overlapSamples
    /\ s.overlapSamples <= s.segmentSamples

LawStart(i, S, O) == IF i = 0 THEN 0 ELSE i * S - O

LawLength(i, S, O, total) ==
    IF i = 0 THEN Min(S, total) ELSE Min(S + O, total - LawStart(i, S, O))

\* C1: for totalFrames >= 1, S >= 1 and 0 <= O <= S, segment 0 starts at 0
\* with min(S, totalFrames) samples and segment i > 0 starts at i*S - O with
\* min(S + O, totalFrames - start) samples; a finished split has emitted
\* segment 0; 50 frames with S = 20 and O = 5 give 20, 25 and 15 samples.
C1_SegmentLaw ==
    (Looping(split) /\ LawDomain(split)) =>
        LET S == split.segmentSamples
            O == split.overlapSamples
            total == TotalFrames(split)
        IN  /\ \A k \in 1..Len(split.chunks) :
                  /\ split.chunks[k].samples.offset = LawStart(k - 1, S, O)
                  /\ split.chunks[k].samples.length = LawLength(k - 1, S, O, total)
                  /\ split.slices[k].chunkStart = LawStart(k - 1, S, O)
                  /\ split.slices[k].chunkLength = LawLength(k - 1, S, O, total)
            /\ split.pc = "resolved" => Len(split.chunks) >= 1
            /\ (split.pc = "resolved" /\ total = 50 /\ S = 20 /\ O = 5) =>
                  /\ ChunkLengths(split) = <<20, 25, 15>>
                  /\ [k \in 1..3 |-> split.chunks[k].size] = <<84, 94, 74>>

C1_Witness ==
    /\ split.pc = "resolved"
    /\ TotalFrames(split) = 50
    /\ split.segmentSamples = 20
    /\ split.overlapSamples = 5
    /\ Len(split.chunks) = 3

\* The samples two views have in common.
Shared(v, w) == Max(Min(ViewEnd(v), ViewEnd(w)) - Max(v.offset, w.offset), 0)

\* Every segment after the first begins O samples before the end of the one
\* before it, and the two have exactly O samples in common, which are the
\* first O samples of the later one.
ConsecutiveOverlap(s) ==
    \A k \in 2..Len(s.chunks) :
        LET prev == s.chunks[k - 1].samples
            this == s.chunks[k].samples
        IN  /\ this.offset = ViewEnd(prev) - s.overlapSamples
            /\ s.slices[k].chunkStart = SliceEnd(s.slices[k - 1]) - s.overlapSamples
            /\ Shared(prev, this) = s.overlapSamples
            /\ this.length >= s.overlapSamples

\* C2 as stated: for all segmentation parameters, each segment after the
\* first begins O samples before the end of the previous one and shares
\* exactly O samples with it.
C2_OverlapForAllParameters == Looping(split) => ConsecutiveOverlap(split)

\* C2, amended: for segmentation parameters with 0 <= O <= S, each segment
\* after the first begins O samples before the end of the previous one and
\* shares exactly O samples with it, at its leading edge.
C2_OverlapWithinSegment ==
    (Looping(split) /\ 0 <= split.overlapSamples
        /\ split.overlapSamples <= split.segmentSamples) => ConsecutiveOverlap(split)

C2_Witness ==
    /\ split.pc = "resolved"
    /\ split.overlapSamples >= 2
    /\ split.overlapSamples <= split.segmentSamples
    /\ Len(split.chunks) >= 3

\* C3: a segment whose end reaches totalFrames ends exactly at totalFrames,
\* is the last one emitted and ends the call; with S >= 1 a finished split
\* has such a segment; with totalFrames <= S the split is one segment, the
\* whole buffer, with no overlap applied.
C3_StopsAtEnd ==
    Looping(split) =>
        LET total == TotalFrames(split)
            n == Len(split.chunks)
        IN  /\ \A k \in 1..n :
                  (\/ ViewEnd(split.chunks[k].samples) >= total
                   \/ SliceEnd(split.slices[k]) >= total) =>
                      /\ ViewEnd(split.chunks[k].samples) = total
                      /\ SliceEnd(split.slices[k]) = total
                      /\ k = n
                      /\ split.pc = "resolved"
            /\ (split.pc = "resolved" /\ split.segmentSamples >= 1) =>
                  /\ n >= 1
                  /\ ViewEnd(split.chunks[n].samples) = total
            /\ (split.pc = "resolved" /\ total <= split.segmentSamples) =>
                  /\ n = 1
                  /\ split.chunks[1].samples = [offset |-> 0, length |-> total]
                  /\ split.slices[1] = [chunkStart |-> 0, chunkLength |-> total]

C3_Witness ==
    /\ split.pc = "resolved"
    /\ Len(split.chunks) >= 2
    /\ split.overlapSamples >= 1
    /\ ViewEnd(split.chunks[Len(split.chunks)].samples) = TotalFrames(split)
    /\ SliceEnd(split.slices[Len(split.chunks)]) < split.index * split.segmentSamples
           + split.segmentSamples

---------------------------------------------------------------------------
(* Properties of encodeWav *)

\* DataView reads, little-endian, and the characters at an offset.
GetUint16(buffer, offset) == buffer[offset + 1] + 256 * buffer[offset + 2]

GetUint32(buffer, offset) ==
    buffer[offset + 1] + 256 * buffer[offset + 2]
        + 65536 * buffer[offset + 3] + 16777216 * buffer[offset + 4]

GetInt16(buffer, offset) ==
    LET u == GetUint16(buffer, offset) IN IF u >= 32768 THEN u - 65536 ELSE u

BytesAt(buffer, offset, n) == [k \in 1..n |-> buffer[offset + k]]

\* C4: a container of n samples (n = 0 included) is 44 + 2*n bytes long:
\* the buffer encodeWav returns, the blob normalizeAudio returns and every
\* chunk splitAudio returns.
C4_SizeLaw ==
    /\ norm.pc = "resolved" =>
          /\ Len(norm.wavBuffer) = 44 + 2 * Len(norm.samples)
          /\ norm.blob.size = 44 + 2 * Len(norm.samples)
    /\ Looping(split) =>
          \A k \in 1..Len(split.chunks) :
              split.chunks[k].size = 44 + 2 * split.chunks[k].samples.length

C4_Witness ==
    /\ norm.pc = "resolved"
    /\ norm.samples = <<>>
    /\ norm.blob.size = 44

\* C5: the 44-byte header, little-endian: "RIFF", 36 + 2n, "WAVE", "fmt ",
\* 16, format 1, 1 channel, r, 2r, block align 2, 16 bits, "data", 2n.
C5_Header ==
    norm.pc = "resolved" =>
        LET b == norm.wavBuffer
            n == Len(norm.samples)
            r == norm.sampleRate
        IN  /\ BytesAt(b, 0, 4) = <<82, 73, 70, 70>>
            /\ GetUint32(b, 4) = 36 + 2 * n
            /\ BytesAt(b, 8, 4) = <<87, 65, 86, 69>>
            /\ BytesAt(b, 12, 4) = <<102, 109, 116, 32>>
            /\ GetUint32(b, 16) = 16
            /\ GetUint16(b, 20) = 1
            /\ GetUint16(b, 22) = 1
            /\ GetUint32(b, 24) = r
            /\ GetUint32(b, 28) = 2 * r
            /\ GetUint16(b, 32) = 2
            /\ GetUint16(b, 34) = 16
            /\ BytesAt(b, 36, 4) = <<100, 97, 116, 97>>
            /\ GetUint32(b, 40) = 2 * n

C5_Witness ==
    /\ norm.pc = "resolved"
    /\ norm.sampleRate = 48000
    /\ Len(norm.samples) = 2
    /\ GetUint32(norm.wavBuffer, 28) = 96000

\* q(x): x clamped to [-1, 1], times 32768 when negative and 32767
\* otherwise, truncated toward zero; x in units of 1/SampleDen.
Quantized(num) ==
    LET c == IF num < -SampleDen THEN -SampleDen
             ELSE IF num > SampleDen THEN SampleDen ELSE num
    IN  IF c < 0 THEN -((-c * 32768) \div SampleDen) ELSE (c * 32767) \div SampleDen

\* C6: sample i is written at offset 44 + 2*i as the signed 16-bit value
\* q(x); q(x) lies in [-32768, 32767]; 2.0, -2.0 and 0.25 are written as
\* 32767, -32768 and 8191.
C6_Quantization ==
    norm.pc = "resolved" =>
        /\ \A i \in 0..(Len(norm.samples) - 1) :
              LET x == norm.samples[i + 1]
                  written == GetInt16(norm.wavBuffer, 44 + 2 * i)
              IN  ~x.nan =>
                      /\ written = Quantized(x.num)
                      /\ Quantized(x.num) \in (-32768)..32767
        /\ norm.samples = <<Sample(2 * SampleDen), Sample(-2 * SampleDen),
                            Sample(SampleDen \div 4)>> =>
              [i \in 1..3 |-> GetInt16(norm.wavBuffer, 44 + 2 * (i - 1))]
                  = <<32767, -32768, 8191>>

C6_Witness ==
    /\ norm.pc = "resolved"
    /\ norm.samples = <<Sample(2 * SampleDen), Sample(-2 * SampleDen),
                        Sample(SampleDen \div 4)>>
    /\ GetInt16(norm.wavBuffer, 48) = 8191

---------------------------------------------------------------------------
(* Properties of getAudioDuration *)

\* The metadata loaded and the duration it reports is not usable.
InvalidMetadata(p) == p.event = "loadedmetadata" /\ ~ValidDuration(p.file.duration)

---------------------------------------------------------------------------
(* Properties of processAudio *)

Started == {o \in 1..MaxOps : ops[o].pc # "none"}
OnPath(path) == {o \in Started : ops[o].path = path}

\* The duration getAudioDuration resolved with is more than 900 s.
Over900(op) ==
    /\ op.probe.promise = "resolved"
    /\ op.probe.duration.kind = "finite"
    /\ op.probe.duration.num > 900 * op.probe.duration.den

C10_SequentialTranscribe ==
    \A o \in OnPath("split") :
        LET calls == ops[o].calls
        IN  /\ \A k \in 1..Len(calls) : calls[k].index = k - 1
            /\ \A k \in 1..(Len(calls) - 1) : calls[k].state = "ok"
            /\ Cardinality({k \in 1..Len(calls) : calls[k].state = "inflight"}) <= 1
            /\ ops[o].pc = "transcribe" <=>
                  (Len(calls) > 0 /\ calls[Len(calls)].state = "inflight")
            /\ Len(ops[o].results) =
                  Cardinality({k \in 1..Len(calls) : calls[k].state = "ok"})

C10_Witness ==
    \E o \in OnPath("split") :
        /\ Len(ops[o].calls) = 3
        /\ ops[o].calls[1].state = "ok"
        /\ ops[o].calls[2].state = "ok"
        /\ ops[o].calls[3].state = "inflight"
        /\ ops[o].calls[3].index = 2

\* The texts the calls returned, in the order of the chunks, with one space
\* between each two.
RECURSIVE SpaceJoined(_, _)
SpaceJoined(calls, n) ==
    IF n = 0 THEN <<>>
    ELSE IF n = 1 THEN calls[1].text
    ELSE SpaceJoined(calls, n - 1) \o <<" ">> \o calls[n].text

\* Call o of processAudio returns in this step, all its calls having succeeded.
Returns(o) == ops[o].pc # "returned" /\ ops'[o].pc = "returned"

\* C11: when all N transcribe calls of a call of processAudio have
\* succeeded, the transcript it sets is the N returned texts in the order of
\* the chunks with a single space between neighbours (the text itself for
\* N = 1): nothing is dropped, merged or moved, whatever else happened
\* between the calls.
C11_JoinedInOrder ==
    [][\A o \in 1..MaxOps :
          Returns(o) =>
              /\ \A k \in 1..Len(ops'[o].calls) : ops'[o].calls[k].state = "ok"
              /\ Len(ops'[o].calls) = Len(ops'[o].chunks) \/ ops'[o].path = "normalize"
              /\ app'.transcription = SpaceJoined(ops'[o].calls, Len(ops'[o].calls))
              /\ app'.status = "done"]_vars

C11_Witness ==
    \E o \in OnPath("split") :
        /\ ops[o].pc = "returned"
        /\ Len(ops[o].calls) = 3
        /\ ops[o].calls[1].text = <<"a">>
        /\ ops[o].calls[2].text = <<>>
        /\ ops[o].calls[3].text = <<"a">>
        /\ app.status = "done"
        /\ app.transcription = <<"a", " ", " ", "a">>

\* Call o of processAudio ends in its catch block in this step.
Fails(o) == ops[o].pc \notin {"none", "caught"} /\ ops'[o].pc = "caught"

\* C12: when a step of a call of processAudio fails (the probe, the decode
\* of normalizeAudio or splitAudio, or the transcribe call for chunk k), the
\* call makes no further transcribe call, then or later; the status becomes
\* error with a message; and no transcript is shown: the texts of the
\* chunks before k stay in the results array and never reach the state.
C12_FailureDiscardsPartial ==
    [][\A o \in 1..MaxOps :
          /\ Fails(o) =>
                /\ ops'[o].calls = ops[o].calls
                   \/ ops'[o].calls = Settled(ops[o], "failed").calls
                /\ \A k \in 1..Len(ops'[o].calls) : ops'[o].calls[k].state # "inflight"
                /\ ops'[o].results = ops[o].results
                /\ app'.status = "error"
                /\ app'.error # ""
                /\ app'.transcription = app.transcription
                /\ ExposedTranscript' = <<>>
          /\ (o \in Started /\ ops[o].pc = "caught") => ops'[o] = ops[o]]_vars

C12_Witness ==
    \E o \in OnPath("split") :
        /\ ops[o].pc = "caught"
        /\ Len(ops[o].calls) = 2
        /\ ops[o].calls[2].state = "failed"
        /\ Len(ops[o].chunks) = 3
        /\ ops[o].results = << <<"a">> >>
        /\ app.status = "error"
        /\ app.error = "HTTP 500: Internal Server Error"
        /\ app.transcription = <<>>

\* Nothing is under way: no recorder is recording or stopping, and every
\* call of processAudio has returned.
Quiescent ==
    /\ app.recorder \in {"none", "inactive"}
    /\ \A o \in 1..MaxOps : ops[o].pc \in {"none", "returned", "caught"}

\* C13: once the operations that were started have returned, the status is
\* not left in recording, processing or transcribing.
C13_StatusSettles ==
    Quiescent => app.status \notin {"recording", "processing", "transcribing"}

---------------------------------------------------------------------------
(* Properties of resampleToMono16k *)

\* The channel count and the sample rate in the header encodeWav writes for
\* the given number of samples at the given rate.
HeaderShape(sampleCount, sampleRate) ==
    LET header == WriteHeader(ZeroBuffer(WavHeaderBytes), sampleCount, sampleRate)
    IN  [channels |-> GetUint16(header, 22), sampleRate |-> GetUint32(header, 24)]

MonoSixteenK(buffer) == buffer.numberOfChannels = 1 /\ buffer.sampleRate = 16000

\* C14: whatever the channel count and the sample rate of the decoded
\* input, resampleToMono16k returns a buffer of one channel at 16000 Hz, and
\* the header of the container normalizeAudio writes, and of every chunk
\* splitAudio writes, says one channel and 16000 Hz.
C14_MonoSixteenK ==
    /\ (norm.pc \in {"encode", "resolved"} /\ norm.file.decodable) =>
          /\ MonoSixteenK(resampleToMono16k(norm.file.decoded))
          /\ norm.sampleRate = 16000
          /\ norm.pc = "resolved" =>
                /\ GetUint16(norm.wavBuffer, 22) = 1
                /\ GetUint32(norm.wavBuffer, 24) = 16000
    /\ split.pc \in {"loop", "resolved"} =>
          /\ MonoSixteenK(resampleToMono16k(split.file.decoded))
          /\ split.sampleRate = 16000
          /\ Len(split.chunks) > 0 =>
                LET chunk == split.chunks[Len(split.chunks)]
                IN  HeaderShape(chunk.samples.length, chunk.sampleRate) =
                        [channels |-> 1, sampleRate |-> 16000]

C14_Witness ==
    /\ norm.pc = "resolved"
    /\ norm.file.decoded = AudioBuffer(3, 44100, 2)
    /\ Len(norm.samples) = 1
    /\ GetUint16(norm.wavBuffer, 22) = 1
    /\ GetUint32(norm.wavBuffer, 24) = 16000

---------------------------------------------------------------------------
(* Properties of splitAudio with its default parameters *)

\* The call uses the defaults: segments of 900 s, 3 s of overlap.
DefaultParameters(s) ==
    /\ s.segmentDuration = 900 * TicksPerSecond
    /\ s.overlap = 3 * TicksPerSecond

\* The sample at a whole second of 16 kHz audio.
AtSecond(seconds) == seconds * 16000

---------------------------------------------------------------------------
(* Properties of the sample counts of splitAudio *)

\* seconds * sampleRate less its whole seconds' samples, times
\* TicksPerSecond: the part of the product that decides the rounding.
SubSecondProduct(ticks, sampleRate) == (ticks % TicksPerSecond) * sampleRate

SamplesBeyondWholeSeconds(n, ticks, sampleRate) ==
    n - (ticks \div TicksPerSecond) * sampleRate

\* n = floor(seconds * sampleRate)
IsFloorOf(n, ticks, sampleRate) ==
    LET k == SamplesBeyondWholeSeconds(n, ticks, sampleRate)
    IN  /\ k * TicksPerSecond <= SubSecondProduct(ticks, sampleRate)
        /\ SubSecondProduct(ticks, sampleRate) < (k + 1) * TicksPerSecond

\* n = round(seconds * sampleRate): n - 1/2 <= seconds * sampleRate < n + 1/2
IsRoundOf(n, ticks, sampleRate) ==
    LET k == SamplesBeyondWholeSeconds(n, ticks, sampleRate)
    IN  /\ (2 * k - 1) * TicksPerSecond <= 2 * SubSecondProduct(ticks, sampleRate)
        /\ 2 * SubSecondProduct(ticks, sampleRate) < (2 * k + 1) * TicksPerSecond

\* The fractional part of seconds * sampleRate is one half or more.
FractionAtLeastHalf(ticks, sampleRate) ==
    2 * (SubSecondProduct(ticks, sampleRate) % TicksPerSecond) >= TicksPerSecond

SamplesComputed == split.pc \in {"loop", "resolved"}

\* C20 as stated: S = round(segmentDuration * sampleRate) and
\* O = round(overlap * sampleRate) for every duration and overlap, products
\* with a fractional part of one half or more included.
C20_SamplesRounded ==
    SamplesComputed
        => /\ IsRoundOf(split.segmentSamples, split.segmentDuration, split.sampleRate)
           /\ IsRoundOf(split.overlapSamples, split.overlap, split.sampleRate)

\* C20: S = floor(segmentDuration * sampleRate) and
\* O = floor(overlap * sampleRate): a fractional part is dropped, one of one
\* half or more too.
C20_SamplesFloored ==
    SamplesComputed
        => /\ IsFloorOf(split.segmentSamples, split.segmentDuration, split.sampleRate)
           /\ IsFloorOf(split.overlapSamples, split.overlap, split.sampleRate)

C20_Witness ==
    /\ split.pc = "resolved"
    /\ FractionAtLeastHalf(split.segmentDuration, split.sampleRate)
    /\ FractionAtLeastHalf(split.overlap, split.sampleRate)
    /\ split.segmentSamples >= 1
    /\ split.overlapSamples >= 1
    /\ Len(split.chunks) >= 2

---------------------------------------------------------------------------
(* Properties of MistralClient.transcribe *)

\* The body is JSON with a non-empty error.message.
HasErrorMessage(body) ==
    /\ body.json.type = "object"
    /\ Get(body.json, "error").type = "object"
    /\ Get(Get(body.json, "error"), "message").type = "string"
    /\ Get(Get(body.json, "error"), "message").value # ""

HttpText(response) ==
    "HTTP " \o ToString(response.status) \o ": " \o response.body.text

Answered == http.client = "mistral" /\ http.pc # "sent"

\* C16: when the transcription endpoint answers with a status outside
\* 200..299, transcribe rejects; the Error's message is the body's
\* error.message when the body is JSON with a (non-empty) one, and otherwise
\* exactly "HTTP <status>: <body text>"; no transcript is returned.
C16_NonOkRejects ==
    (Answered /\ ~(http.response.status \in 200..299))
        => /\ http.pc \in {"rejected", "thrown"}
           /\ http.value = Undefined
           /\ http.message =
                 IF HasErrorMessage(http.response.body)
                 THEN Get(Get(http.response.body.json, "error"), "message").value
                 ELSE HttpText(http.response)

C16_Witness ==
    /\ http.client = "mistral"
    /\ http.pc = "thrown"
    /\ http.response.status = 504
    /\ http.message = "HTTP 504: gateway timeout"

\* The model the claim expects in the form: the constructor's second
\* argument, "voxtral-mini-latest" without one.
ModelGivenToConstructor(args) ==
    IF Len(args) >= 2 THEN args[2] ELSE "voxtral-mini-latest"

\* C17: transcribe sends a POST to
\* https://api.mistral.ai/v1/audio/transcriptions with the header
\* Authorization: Bearer <apiKey> and a form whose model is the model given
\* to the constructor, "voxtral-mini-latest" when none is given.
C17_RequestModelFromConstructor ==
    http.client = "mistral"
        => /\ http.request.method = "POST"
           /\ http.request.url = "https://api.mistral.ai/v1/audio/transcriptions"
           /\ http.request.headers.Authorization = "Bearer " \o http.args[1]
           /\ http.request.form.model = ModelGivenToConstructor(http.args)

---------------------------------------------------------------------------
(* Properties of DeepLClient *)

PlainRuntime == ~http.runtime.tauri /\ ~http.runtime.capacitor

\* The URL of DeepL's API for the call's plan and path.
DeepLUrl ==
    (IF http.plan = "free" THEN "https://api-free.deepl.com/v2"
                           ELSE "https://api.deepl.com/v2") \o http.path

AuthorizedBy(request) ==
    /\ "Authorization" \in DOMAIN request.headers
    /\ request.headers["Authorization"] = "DeepL-Auth-Key " \o http.apiKey

FixedText(status) ==
    CASE status = 403 -> "Authentication failed -- check your DeepL API key."
      [] status = 429 -> "Too many requests -- please wait before retrying."
      [] status = 456 -> "Quota exceeded -- you have used up your character limit."
      [] status = 529 -> "DeepL is temporarily unavailable -- please try again later."

\* C19: whenever the status of DeepL's response is outside 200..299,
\* translateText and getUsage reject with a DeepLError whose statusCode is
\* that status and whose message, for 403, 429, 456 and 529, is the fixed
\* text of the status whatever the body; no value is returned.
C19_StatusErrors ==
    (/\ http.client = "deepl"
     /\ http.response # NoResponse
     /\ http.response.status \notin 200..299)
        => /\ http.pc \in {"rejected", "thrown"}
           /\ http.value = Undefined
           /\ http.error.name = "DeepLError"
           /\ http.error.statusCode = JNumber(http.response.status)
           /\ http.response.status \in {403, 429, 456, 529}
                 => http.error.message = FixedText(http.response.status)

---------------------------------------------------------------------------
(* Properties of the object URL of getAudioMetadata *)

ProbeSettled == probe.promise \in {"resolved", "rejected"}

\* C21: for every call of getAudioDuration the object URL is revoked exactly
\* once, and before the promise settles, whether the metadata loads with a
\* valid duration, loads with an invalid one (fallback taken) or fails to
\* load, and in whatever order the loadedmetadata and error events arrive.
C21_RevokedExactlyOnce ==
    probe.promise # "none"
        => /\ probe.revoked <= 1
           /\ ProbeSettled => probe.revoked = 1

---------------------------------------------------------------------------
(* Properties of the transcribe calls of one operation *)

\* The segments of an operation: the chunks of splitAudio, or the one
\* container of normalizeAudio.
SegmentCount(op) ==
    IF op.path = "split" THEN Len(op.chunks)
    ELSE IF op.path = "normalize" THEN 1
    ELSE 0

---------------------------------------------------------------------------
(* Properties of the AudioProcessor's audio context *)

\* A step in which call o reaches this.getContext(): the decode fallback of
\* its getAudioDuration, or the decode of its splitAudio or normalizeAudio.
ReachesGetContext(o) ==
    \/ /\ ops[o].pc = "probe"
       /\ ops[o].probe.fallback = "pending"
       /\ ops'[o].probe.fallback # "pending"
    \/ /\ ops[o].pc \in {"split", "normalize"}
       /\ ops'[o].pc # ops[o].pc

\* Call o has been through a decode.
HasDecoded(op) ==
    \/ op.probe.fallback \in {"decoded", "failed"}
    \/ op.path \in {"split", "normalize"} /\ op.pc \notin {"split", "normalize"}

---------------------------------------------------------------------------
(* Properties of the segments of splitAudio: cover, order, bounds *)

\* Sample x is in one of the containers.
Covered(s, x) ==
    \E k \in 1..Len(s.chunks) :
        s.chunks[k].samples.offset <= x /\ x < ViewEnd(s.chunks[k].samples)

\* The sample the first k containers reach without a gap: a container
\* that starts at or before it extends it to the container's end.
RECURSIVE Reach(_, _)
Reach(s, k) ==
    IF k = 0 THEN 0
    ELSE LET r == Reach(s, k - 1)
             view == s.chunks[k].samples
         IN  IF view.offset <= r THEN Max(r, ViewEnd(view)) ELSE r

\* Every sample index in [0, totalFrames) is in a container: the containers
\* reach totalFrames without a gap, and on the small buffers each index is
\* looked up as well.
CoversAll(s) ==
    /\ Reach(s, Len(s.chunks)) >= TotalFrames(s)
    /\ TotalFrames(s) <= MaxFrames
          => \A x \in 0..(TotalFrames(s) - 1) : Covered(s, x)

StartsIncrease(s) ==
    \A k \in 2..Len(s.chunks) :
        s.chunks[k].samples.offset > s.chunks[k - 1].samples.offset

StartsDoNotDecrease(s) ==
    \A k \in 2..Len(s.chunks) :
        s.chunks[k].samples.offset >= s.chunks[k - 1].samples.offset

\* C24 as stated: for totalFrames >= 1, S >= 1 and 0 <= O <= S the segments
\* cover every sample index in [0, totalFrames) and their start positions
\* are strictly increasing.
C24_CoverAndStrictOrder ==
    (Looping(split) /\ LawDomain(split))
        => /\ split.pc = "resolved" => CoversAll(split)
           /\ StartsIncrease(split)

\* C24: for totalFrames >= 1, S >= 1 and 0 <= O <= S the segments cover
\* every sample index in [0, totalFrames); their start positions never
\* decrease, and are strictly increasing when O < S (with O = S the second
\* segment starts at 0 as the first does).
C24_CoverAndOrder ==
    (Looping(split) /\ LawDomain(split))
        => /\ split.pc = "resolved" => CoversAll(split)
           /\ StartsDoNotDecrease(split)
           /\ split.overlapSamples < split.segmentSamples => StartsIncrease(split)
           /\ \A k \in 3..Len(split.chunks) :
                 split.chunks[k].samples.offset > split.chunks[k - 1].samples.offset

C24_Witness ==
    /\ split.pc = "resolved"
    /\ TotalFrames(split) = 50
    /\ split.segmentSamples = 5
    /\ split.overlapSamples = 5
    /\ Len(split.chunks) = 10
    /\ split.chunks[1].samples.offset = 0
    /\ split.chunks[2].samples.offset = 0

\* Segment k holds a sample that none of the segments before it holds.
HoldsNewSample(s, k) ==
    \E x \in s.chunks[k].samples.offset..(ViewEnd(s.chunks[k].samples) - 1) :
        \A j \in 1..(k - 1) :
            x < s.chunks[j].samples.offset \/ x >= ViewEnd(s.chunks[j].samples)

\* Every segment after the first is longer than the overlap and holds a
\* sample no earlier segment holds.
BeyondOverlap(s) ==
    \A k \in 2..Len(s.chunks) :
        /\ s.chunks[k].samples.length > s.overlapSamples
        /\ s.slices[k].chunkLength > s.overlapSamples
        /\ s.chunks[k].samples.length <= MaxFrames => HoldsNewSample(s, k)
        /\ ViewEnd(s.chunks[k].samples) > ViewEnd(s.chunks[k - 1].samples)

\* C25 as stated: for totalFrames >= 1, S >= 1 and O >= 0, every segment
\* after the first is longer than O and holds a sample that no earlier
\* segment holds.
C25_BeyondOverlapForAllOverlaps ==
    (Looping(split) /\ TotalFrames(split) >= 1 /\ split.segmentSamples >= 1
        /\ split.overlapSamples >= 0) => BeyondOverlap(split)

\* C25: for totalFrames >= 1, S >= 1 and 0 <= O <= S, every segment after
\* the first is longer than O and holds a sample that no earlier segment
\* holds: none consists of overlap only.
C25_BeyondOverlap ==
    (Looping(split) /\ LawDomain(split)) => BeyondOverlap(split)

C25_Witness ==
    /\ split.pc = "resolved"
    /\ TotalFrames(split) = 21
    /\ split.segmentSamples = 10
    /\ split.overlapSamples = 3
    /\ Len(split.chunks) = 3
    /\ split.chunks[3].samples = [offset |-> 17, length |-> 4]

\* Segment k lies inside the buffer, and its container holds exactly the
\* samples from its start on.
InsideBuffer(s, k) ==
    /\ 0 <= s.slices[k].chunkStart
    /\ s.slices[k].chunkLength >= 1
    /\ SliceEnd(s.slices[k]) <= TotalFrames(s)
    /\ s.chunks[k].samples = [offset |-> s.slices[k].chunkStart,
                              length |-> s.slices[k].chunkLength]

\* C26: for all S >= 0 and O >= 0, an overlap larger than the segment
\* length included, every emitted segment has 0 <= start, length >= 1 and
\* start + length <= totalFrames: the slice handed to the encoder does not
\* start before the buffer and does not wrap around it.
C26_SegmentsInsideBuffer ==
    (Looping(split) /\ split.segmentSamples >= 0 /\ split.overlapSamples >= 0)
        => \A k \in 1..Len(split.chunks) : InsideBuffer(split, k)

---------------------------------------------------------------------------
(* Properties of the loop of splitAudio *)

\* ceil(totalFrames / S) for S >= 1
CeilOfQuotient(totalFrames, S) == (totalFrames + S - 1) \div S

\* C27: the loop of splitAudio terminates for every totalFrames >= 0, S >= 0
\* and O >= 0, the empty buffer and S = 0 included, and for S >= 1 it emits
\* at most ceil(totalFrames / S) segments.
C27_LoopTerminates ==
    /\ <>(split.pc = "resolved")
    /\ [](split.segmentSamples >= 1
            => /\ Len(split.chunks) <= CeilOfQuotient(TotalFrames(split), split.segmentSamples)
               /\ split.index < Max(CeilOfQuotient(TotalFrames(split), split.segmentSamples), 1))
    /\ [](split.segmentSamples = 0 => split.index = 0 /\ Len(split.chunks) = 0)

C27_Witness ==
    /\ split.pc = "resolved"
    /\ split.segmentSamples = 0
    /\ split.overlapSamples = MaxOverlapSamples
    /\ TotalFrames(split) = MaxLoopFrames
    /\ split.chunks = <<>>


---------------------------------------------------------------------------
(* Properties of the completion of processAudio                            *)

\* A transcribe call of the operation has returned a text.
HasSuccessfulCall(op) ==
    \E k \in 1..Len(op.calls) : op.calls[k].state = "ok"

\* The probed duration and the length of the decoded audio disagree about
\* which side of 900 s the file is on.
DurationDisagrees(op) ==
    /\ op.file.decodable
    /\ op.probe.promise = "resolved"
    /\ IsLongAudio(op.probe.duration)
         # (op.file.decoded.length > LongAudioSeconds * op.file.decoded.sampleRate)

\* The step by which call o returns normally: the only one that sets 'done'.
Completes(o) == ops[o].pc # "returned" /\ ops'[o].pc = "returned"

\* C28: the status becomes 'done' only in the step by which an operation
\* returns, and an operation that returns has had at least one transcribe
\* call return successfully and holds at least one text; on the segmented
\* path it had at least one segment, whatever the probed duration and the
\* decoded length are.
C28_DoneAfterSuccessfulCall ==
    /\ [](\A o \in Started :
             ops[o].pc = "returned" =>
                /\ HasSuccessfulCall(ops[o])
                /\ Len(ops[o].results) >= 1
                /\ ops[o].path = "split" => Len(ops[o].chunks) >= 1)
    /\ [][app'.status = "done" /\ app.status # "done" =>
             \E o \in Started : Completes(o) /\ HasSuccessfulCall(ops'[o])]_vars
    /\ [][\A o \in Started : Completes(o) => app'.status = "done"]_vars

\* An operation on the segmented path, whose file decodes to less than the
\* probed duration promised, has returned and the status is 'done'.
C28_Witness ==
    /\ app.status = "done"
    /\ \E o \in OnPath("split") :
          /\ ops[o].pc = "returned"
          /\ DurationDisagrees(ops[o])
          /\ HasSuccessfulCall(ops[o])


---------------------------------------------------------------------------
(* Properties of the containers submitted to transcribe                    *)

\* The most samples a container may hold: 900 s and 3 s of overlap at 16 kHz.
MaxContainerSamples == (DefaultSegmentDuration + DefaultOverlap) * targetSampleRate

\* C29: every container submitted to transcribe, on the short path and on
\* the segmented path, holds at most (900 + 3) * 16000 samples, whatever the
\* probed duration and the decoded length of the file are.
C29_ContainerBound ==
    \A o \in Started :
       \A k \in 1..Len(ops[o].calls) :
          ops[o].calls[k].blob.samples.length <= MaxContainerSamples


---------------------------------------------------------------------------
(* Properties of the operations in flight                                  *)

\* The calls of processAudio that are past their first await and have not
\* returned or reached the end of the catch block.
InFlight == {o \in Started : ops[o].pc \notin {"returned", "caught"}}

\* C30 (first part): at most one call of processAudio is in flight at any
\* time.
C30_OneInFlight == Cardinality(InFlight) <= 1

\* C30 (second part): a call that completes while another call, started
\* after it, exists does not write the transcript; calls are numbered in the
\* order in which they start.
C30_NewestTranscript ==
    [][\A o \in Started :
          Completes(o) /\ (\E later \in Started : later > o)
             => app'.transcription = app.transcription /\ app'.status = app.status]_vars

===========================================================================
